---- MODULE Spec2Model ----
(***************************************************************************)
(* A model of the unified-ai-orchestrator request pipeline and of the      *)
(* resilience and persistence machinery around it.  Every subsystem is a   *)
(* group of variables with its own initial condition, actions and          *)
(* specification; a specification leaves the other groups at rest.         *)
(***************************************************************************)
EXTENDS Integers, Sequences, FiniteSets, TLC

VARIABLES
    \* resilience/circuit_breaker.py: one CircuitBreaker and its callers
    breaker,        \* the CircuitBreaker object (its dataclass fields)
    cb_now,         \* time.time()
    cb_inflight,    \* wrapped operations awaited by call() right now
    cb_event,       \* the last step taken on the breaker
    cb_closedRun,   \* consecutive failures recorded while CLOSED
    cb_openedAt,    \* when the breaker last went from CLOSED or HALF_OPEN to OPEN
    cb_probeFailedAt,   \* when a failure was last recorded in HALF_OPEN
    cb_probeSuccesses,  \* successes recorded in HALF_OPEN since it was last entered
    cb_old,         \* awaited operations that were invoked before the breaker last opened
    cb_late         \* whether the last outcome recorded was that of such an operation

cbVars == <<breaker, cb_now, cb_inflight, cb_event, cb_closedRun,
            cb_openedAt, cb_probeFailedAt, cb_probeSuccesses, cb_old, cb_late>>

VARIABLES
    \* resilience/retry.py: one call of a function wrapped by retry(policy)
    policy,         \* the RetryPolicy
    rt_op,          \* what the wrapped operation does at its k-th invocation
    rt_pc,          \* "loop" | "sleep" | "done"
    rt_attempt,     \* wrapper's local: attempt
    rt_last_error,  \* wrapper's local: last_error
    rt_calls,       \* invocations of the wrapped operation so far
    rt_outcome,     \* None, <<"return", v>> or <<"raise", e>>
    rt_slept        \* the delays handed to asyncio.sleep so far, in milliseconds

rtVars == <<policy, rt_op, rt_pc, rt_attempt, rt_last_error, rt_calls, rt_outcome,
            rt_slept>>

VARIABLES
    \* resilience/rate_limiter.py: one TokenBucket under a clock
    bucket,         \* the TokenBucket object
    tb_now,         \* time.time(), in clock ticks
    tb_calls,       \* the try_acquire(1) calls made so far: time, result, tokens left
    tb_acquire,     \* the coroutine RateLimiter.acquire(tokens): where it stands
    tb_last,        \* the last call on the bucket: what it saw and what it left
    tb_ops          \* calls started on the bucket so far

tbVars == <<bucket, tb_now, tb_calls, tb_acquire, tb_last, tb_ops>>

VARIABLES
    \* migrations/sqlite.py: one SQLiteMigrationRunner on one database
    mg_migrations,  \* runner.migrations: the registered versions, sorted
    mg_rows,        \* the versions in table schema_migrations
    mg_schema,      \* the versions whose schema objects exist in the database
    mg_pc,          \* "idle" | "up" | "down": the call the runner is in
    mg_local,       \* that call's locals: current_version, applied, target, todo
    mg_result,      \* how the last call ended
    mg_calls        \* the calls completed so far: call, result, database afterwards

mgVars == <<mg_migrations, mg_rows, mg_schema, mg_pc, mg_local, mg_result, mg_calls>>

VARIABLES
    \* context_manager.py over storage/sqlite.py: saves and loads of contexts
    cx_contexts,    \* table contexts: conversation_id -> data (the JSON text)
    cx_saved,       \* per conversation_id: the last Context object saved, and how many saves
    cx_got          \* the get_context call made since the last save: argument and result

cxVars == <<cx_contexts, cx_saved, cx_got>>

VARIABLES
    \* api/routes.py chat over ContextManager, Router, the adapters and retry
    ch_config,      \* load_config(): the live adapter names and the routing rules
    ch_contexts,    \* table contexts: conversation_id -> data (the JSON text)
    ch_messages,    \* table messages: the rows in insertion order
    ch_req,         \* per request slot: the handler's position and locals
    ch_started,     \* requests received so far; also numbers the uuid4() results
    ch_now,         \* datetime.now().timestamp() when the clock was last read
    ch_streak,      \* per adapter: consecutive call_tool() failures, latest first
    ch_tasks,       \* asyncio.create_task: the tasks of the chat handlers and how far they are
    ch_logged,      \* records emitted to the loggers "audit" and security.audit
    ch_audit_logs,  \* table audit_logs: the requests that have a row
    ch_cost_records \* table cost_records: the requests that have a row

chVars == <<ch_config, ch_contexts, ch_messages, ch_req, ch_started, ch_now, ch_streak,
            ch_tasks, ch_logged, ch_audit_logs, ch_cost_records>>

VARIABLES
    \* security/auth.py and api/auth_routes.py over the database
    ak_users,       \* table users: id -> username, role, api_key_hash (legacy)
    ak_api_keys,    \* table api_keys: id -> user_id, key_hash, name, expires_at, ...
    ak_audit_logs,  \* table audit_logs: the rows in insertion order
    ak_env,         \* os.getenv("VALID_API_KEY")
    ak_now,         \* the clock, in days
    ak_issued,      \* API keys generated so far
    ak_out          \* the last response: operation, credential presented, status, body

akVars == <<ak_users, ak_api_keys, ak_audit_logs, ak_env, ak_now, ak_issued, ak_out>>

VARIABLES
    \* api/websocket.py: one connection
    ws_config,      \* load_config(): the adapters and the routing rules
    ws_conn,        \* the handler's locals: key, authenticated, registered,
                    \* running, frames sent for the last frame, routings, adapters invoked
    ws_received     \* the frames received so far

wsVars == <<ws_config, ws_conn, ws_received>>

VARIABLES
    \* migrate_up statement by statement, two runs on one database
    mc_shared,      \* the runs use one SQLiteStorage (one connection)
    mc_migrations,  \* the migrations registered with both runners
    mc_db,          \* the database as committed: version rows, schema objects
    mc_conn,        \* per connection: transaction open, uncommitted writes
    mc_run          \* per run: position in migrate_up and its locals

mcVars == <<mc_shared, mc_migrations, mc_db, mc_conn, mc_run>>

VARIABLES
    \* context_manager.py: one Context handed to manage_window and compress
    wm_messages,    \* context.messages
    wm_call         \* the last call: operation, arguments, messages before and after

wmVars == <<wm_messages, wm_call>>

VARIABLES
    \* router.py: one Router and the decisions it makes
    ro_router,      \* the Router object: routing_rules, default_tool
    ro_decision     \* the last route() call: arguments and selected_tools

roVars == <<ro_router, ro_decision>>

VARIABLES
    \* security/authorization.py: check_resource_access over the database
    ra_db,          \* the database: readable, table contexts, table indexed_files
    ra_check        \* the last check_resource_access call: arguments and result

raVars == <<ra_db, ra_check>>

VARIABLES
    \* api/auth_routes.py create_user: requests in flight on one users table
    cu_users,       \* table users
    cu_audit_logs,  \* table audit_logs
    cu_issued,      \* how many uuid4() values have been drawn
    cu_req          \* per request: position in create_user and its locals

cuVars == <<cu_users, cu_audit_logs, cu_issued, cu_req>>

VARIABLES
    \* api/websocket.py 152-184: one streamed exchange of handle_websocket_chat
    sx_conn,        \* the connection as in ws_conn
    sx_gone,        \* the client has gone away: websocket.send_json raises
    sx_stream,      \* adapter.stream_chat(messages): what it yields, what was pulled
    sx_pc,          \* the handler's position in the block
    sx_context      \* the context: its messages, saves, coroutines left un-awaited

sxVars == <<sx_conn, sx_gone, sx_stream, sx_pc, sx_context>>

VARIABLES
    \* api/routes.py chat and api/websocket.py handle_websocket_chat on one input
    px_case,        \* configuration, message, explicit tool, the adapter's reply
    px_http,        \* what POST /chat did with it: status, adapter, context messages
    px_ws           \* what a chat frame on /ws/chat did with it

pxVars == <<px_case, px_http, px_ws>>

VARIABLES
    \* api/server.py create_app: the middleware stack in front of the routes
    mw_app,         \* the configuration create_app read: API key, ENABLE_CSRF, rate limit
    mw_limiters,    \* RateLimitMiddleware.limiters: client id -> token bucket
    mw_now,         \* time.time(), in seconds
    mw_out          \* the last request and the response the server gave to it

mwVars == <<mw_app, mw_limiters, mw_now, mw_out>>

vars == <<cbVars, rtVars, tbVars, mgVars, cxVars, chVars, akVars, wsVars, mcVars,
          wmVars, roVars, raVars, cuVars, sxVars, pxVars, mwVars>>

\* Optional[T]: None is the empty tuple, a value v is <<v>>.
None == <<>>
Some(v) == <<v>>

(***************************************************************************)
(* resilience/circuit_breaker.py                                           *)
(***************************************************************************)
MaxThreshold == 2      \* failure_threshold and success_threshold range over 1..MaxThreshold
MaxTimeout == 2        \* timeout ranges over 1..MaxTimeout (clock ticks)
MaxTime == 5           \* the clock stops at MaxTime
MaxInflight == 2       \* wrapped operations awaited at the same time

CLOSED == "closed"
OPEN == "open"
HALF_OPEN == "half_open"

\* CircuitBreaker(name, failure_threshold, success_threshold, timeout)
CircuitBreaker(ft, st, to) ==
    [failure_threshold |-> ft, success_threshold |-> st, timeout |-> to,
     state |-> CLOSED, failures |-> 0, successes |-> 0,
     last_failure_time |-> None]

\* CircuitBreaker._check_state
check_state(b, now) ==
    IF /\ b.state = OPEN
       /\ b.last_failure_time # None
       /\ b.last_failure_time[1] # 0
       /\ now - b.last_failure_time[1] >= b.timeout
    THEN [b EXCEPT !.state = HALF_OPEN, !.successes = 0]
    ELSE b

\* CircuitBreaker._on_success
on_success(b) ==
    LET b1 == [b EXCEPT !.failures = 0] IN
    IF b1.state = HALF_OPEN
    THEN LET b2 == [b1 EXCEPT !.successes = @ + 1] IN
         IF b2.successes >= b2.success_threshold
         THEN [b2 EXCEPT !.state = CLOSED, !.successes = 0]
         ELSE b2
    ELSE b1

\* A breaker that opens one failure late (> for >=).
on_failure_late(b, now) ==
    LET b1 == [b EXCEPT !.failures = @ + 1, !.last_failure_time = Some(now)] IN
    IF b1.state = HALF_OPEN THEN [b1 EXCEPT !.state = OPEN]
    ELSE IF b1.state = CLOSED /\ b1.failures > b1.failure_threshold
         THEN [b1 EXCEPT !.state = OPEN]
         ELSE b1

\* A breaker that keeps the old last_failure_time when a HALF_OPEN call fails.
on_failure_no_rearm(b, now) ==
    LET b1 == [b EXCEPT !.failures = @ + 1] IN
    IF b1.state = HALF_OPEN THEN [b1 EXCEPT !.state = OPEN]
    ELSE LET b2 == [b1 EXCEPT !.last_failure_time = Some(now)] IN
         IF b2.state = CLOSED /\ b2.failures >= b2.failure_threshold
         THEN [b2 EXCEPT !.state = OPEN]
         ELSE b2

\* CircuitBreaker._on_failure
on_failure(b, now) ==
    LET b1 == [b EXCEPT !.failures = @ + 1, !.last_failure_time = Some(now)] IN
    IF b1.state = HALF_OPEN THEN [b1 EXCEPT !.state = OPEN]
    ELSE IF b1.state = CLOSED /\ b1.failures >= b1.failure_threshold
         THEN [b1 EXCEPT !.state = OPEN]
         ELSE b1

\* the breaker at rest: what the other specifications keep it at
CBIdle ==
    /\ breaker = CircuitBreaker(1, 1, 1)
    /\ cb_now = 1
    /\ cb_inflight = 0
    /\ cb_event = "init"
    /\ cb_closedRun = 0
    /\ cb_openedAt = None
    /\ cb_probeFailedAt = None
    /\ cb_probeSuccesses = 0
    /\ cb_old = 0
    /\ cb_late = FALSE

(***************************************************************************)
(* resilience/retry.py                                                     *)
(***************************************************************************)
MaxAttempts == 3       \* max_attempts ranges over 0..MaxAttempts

\* Exception class names, as the sequence of their words: type(e).__name__
ConnectionError == <<"Connection", "Error">>
TimeoutError == <<"Timeout", "Error">>
RateLimitError == <<"RateLimit", "Error">>
HTTPError == <<"HTTP", "Error">>
ValueError == <<"Value", "Error">>
ReadTimeoutError == <<"Read", "Timeout", "Error">>
TypeError == <<"Type", "Error">>

\* the list retryable_errors of RetryPolicy.should_retry
retryable_errors == {ConnectionError, TimeoutError, RateLimitError, HTTPError}

\* the errors the wrapped operation may raise
OpErrors == {ConnectionError, HTTPError, ReadTimeoutError, ValueError}

\* Python's `a in b` on strings: a occurs in b as a contiguous part
StrIn(a, b) ==
    \E i \in 0..(Len(b) - Len(a)) :
        \A j \in 1..Len(a) : b[i + j] = a[j]

Min(a, b) == IF a <= b THEN a ELSE b
Max(a, b) == IF a >= b THEN a ELSE b

\* the dataclass RetryPolicy; delays are counted in milliseconds
RetryPolicyOf(ma, initial, maxd, base, jitter) ==
    [max_attempts |-> ma, initial_delay |-> initial, max_delay |-> maxd,
     exponential_base |-> base, jitter |-> jitter]

\* RetryPolicy(max_attempts=...), the other fields at their defaults
RetryPolicy(ma) == RetryPolicyOf(ma, 1000, 60000, 2, TRUE)

\* b ** n
RECURSIVE Pow(_, _)
Pow(b, n) == IF n = 0 THEN 1 ELSE b * Pow(b, n - 1)

\* 0.75 + random.random() * 0.25, in thousandths: random() is in [0, 1)
jitter_factors == {750, 875, 999}

\* RetryPolicy.delay, with the value random.random() gave
delay(p, attempt, jitter_factor) ==
    LET base_delay == p.initial_delay * Pow(p.exponential_base, attempt)
        d == Min(base_delay, p.max_delay)
    IN IF p.jitter THEN (d * jitter_factor) \div 1000 ELSE d

\* the classification at the end of RetryPolicy.should_retry
is_retryable(error) == \E err \in retryable_errors : StrIn(err, error)

\* a policy whose attempt test is inverted (< for >=)
should_retry_inverted(p, attempt, error) ==
    IF attempt < p.max_attempts THEN FALSE ELSE is_retryable(error)

\* RetryPolicy.should_retry
should_retry(p, attempt, error) ==
    IF attempt >= p.max_attempts THEN FALSE ELSE is_retryable(error)

\* the wrapped operation's k-th invocation: Ok (it returns k) or an error
Ok == <<"ok">>
OpOutcomes == {Ok} \cup OpErrors

RTIdle ==
    /\ policy = RetryPolicy(1)
    /\ rt_op = [k \in 1..1 |-> Ok]
    /\ rt_pc = "done"
    /\ rt_attempt = 0
    /\ rt_last_error = None
    /\ rt_calls = 0
    /\ rt_outcome = None
    /\ rt_slept = <<>>

(***************************************************************************)
(* resilience/rate_limiter.py                                              *)
(* refill_rate is the rational num/den tokens per clock tick; the float    *)
(* `tokens` is kept exactly, as a whole number of 1/den tokens.            *)
(***************************************************************************)
MaxCapacity == 2       \* capacity ranges over 1..MaxCapacity
MaxRateNum == 2        \* refill_rate = num/den, num in 1..MaxRateNum
MaxRateDen == 3        \*                        den in 1..MaxRateDen
TBMaxTime == 4         \* the bucket's clock stops at TBMaxTime
MaxCalls == 4          \* try_acquire calls in one behaviour


\* TokenBucket(capacity, refill_rate).__post_init__ at time now
TokenBucket(cap, num, den, now) ==
    [capacity |-> cap, refill_rate |-> <<num, den>>,
     tokens |-> cap * den, last_refill |-> now]

\* one token, in the unit of `tokens`
Unit(b) == b.refill_rate[2]

\* a refill that forgets the capacity (no min)
refill_uncapped(b, now) ==
    LET elapsed == now - b.last_refill
        tokens_to_add == elapsed * b.refill_rate[1]
    IN IF tokens_to_add > 0
       THEN [b EXCEPT !.tokens = b.tokens + tokens_to_add, !.last_refill = now]
       ELSE b

\* TokenBucket._refill
refill(b, now) ==
    LET elapsed == now - b.last_refill
        tokens_to_add == elapsed * b.refill_rate[1]
    IN IF tokens_to_add > 0
       THEN [b EXCEPT !.tokens = Min(b.tokens + tokens_to_add, b.capacity * Unit(b)),
                      !.last_refill = now]
       ELSE b

\* a bucket that wants more than the tokens asked for (> for >=)
try_acquire_strict(b, now, n) ==
    LET b1 == refill(b, now) IN
    IF b1.tokens > n * Unit(b1)
    THEN <<[b1 EXCEPT !.tokens = @ - n * Unit(b1)], TRUE>>
    ELSE <<b1, FALSE>>

\* TokenBucket.try_acquire: <<the bucket afterwards, the result>>
try_acquire(b, now, n) ==
    LET b1 == refill(b, now) IN
    IF b1.tokens >= n * Unit(b1)
    THEN <<[b1 EXCEPT !.tokens = @ - n * Unit(b1)], TRUE>>
    ELSE <<b1, FALSE>>

\* TokenBucket.wait_time: <<the bucket afterwards, the result>>; the result
\* is w for a wait of w / num clock ticks (tokens_needed / refill_rate)
wait_time(b, now) ==
    LET b1 == refill(b, now) IN
    IF b1.tokens >= Unit(b1)
    THEN <<b1, 0>>
    ELSE <<b1, Unit(b1) - b1.tokens>>

\* RateLimiter.remaining: <<the bucket afterwards, max(0, int(tokens))>>
remaining(b, now) ==
    LET b1 == refill(b, now) IN <<b1, Max(0, b1.tokens \div Unit(b1))>>

\* no acquire() is running
NoAcquire == [pc |-> "idle", tokens |-> 0, since |-> 0, wait_time |-> 0, resumed |-> "none"]

NoBucketCall == [op |-> "none", tokens |-> 0, ok |-> FALSE, refilled |-> 0, left |-> 0]

\* the bucket at rest
TBIdle ==
    /\ bucket = TokenBucket(1, 1, 1, 1)
    /\ tb_now = 1
    /\ tb_calls = <<>>
    /\ tb_acquire = NoAcquire
    /\ tb_last = NoBucketCall
    /\ tb_ops = 0

(***************************************************************************)
(* migrations/sqlite.py                                                    *)
(***************************************************************************)
MaxVersion == 3        \* registered versions are drawn from 1..MaxVersion

SetMax(S) == CHOOSE x \in S : \A y \in S : y <= x

\* the lists add_migration can build: sorted by version, duplicates allowed
MigrationLists ==
    {m \in UNION {[1..n -> 1..MaxVersion] : n \in 0..MaxVersion} :
        \A i \in 1..(Len(m) - 1) : m[i] <= m[i + 1]}

\* SQLiteMigrationRunner.get_current_version: MAX(version), None when empty
get_current_version(rows) == IF rows = {} THEN None ELSE Some(SetMax(rows))

\* migrate_up's target: target_version or the newest registered version or 0
up_target(target_version, migrations) ==
    IF target_version # None /\ target_version[1] # 0 THEN target_version[1]
    ELSE IF Len(migrations) > 0
         THEN SetMax({migrations[i] : i \in 1..Len(migrations)})
         ELSE 0

\* migrate_up's "Check for gaps"
gap_detected(current_version, version) ==
    current_version # None /\ version # current_version[1] + 1

\* migrate_down's migrations_to_rollback: newest first
Reverse(q) == [i \in 1..Len(q) |-> q[Len(q) + 1 - i]]

\* the start of migrations_to_rollback moved down by one (>= for >)
migrations_to_rollback_inclusive(migrations, target_version, current_version) ==
    SelectSeq(Reverse(migrations),
              LAMBDA v : v >= target_version /\ v <= current_version)

migrations_to_rollback(migrations, target_version, current_version) ==
    SelectSeq(Reverse(migrations),
              LAMBDA v : v > target_version /\ v <= current_version)

\* a call's locals, and for the record its argument, the version rows it
\* found and the versions it has applied or reverted, in order
NoLocals ==
    [current_version |-> None, applied |-> {}, target |-> 0, todo |-> <<>>,
     target_version |-> None, before |-> {}, done |-> <<>>]

MGMaxCalls == 3        \* calls of migrate_up and migrate_down in one behaviour

\* the record of a completed call
Completed(calls, op, local, result, rows, schema) ==
    Append(calls, [op |-> op, target_version |-> local.target_version,
                   done |-> local.done, before |-> local.before,
                   result |-> result, rows |-> rows, schema |-> schema])

\* the runner at rest
MGIdle ==
    /\ mg_migrations = <<>>
    /\ mg_rows = {}
    /\ mg_schema = {}
    /\ mg_pc = "idle"
    /\ mg_local = NoLocals
    /\ mg_result = "none"
    /\ mg_calls = <<>>

(***************************************************************************)
(* context_manager.py over storage/sqlite.py                               *)
(***************************************************************************)
MaxMessages == 2       \* messages in a context handed to save_context
MaxToolCalls == 1      \* tool_history entries in such a context
MaxSaves == 2          \* saves counted per conversation id (the count saturates)

\* dataclass Message and dataclass Context
Message(role, content, timestamp) ==
    [role |-> role, content |-> content, timestamp |-> timestamp]

Context(conversation_id, project_id, messages, codebase_context, tool_history) ==
    [conversation_id |-> conversation_id, project_id |-> project_id,
     messages |-> messages, codebase_context |-> codebase_context,
     tool_history |-> tool_history]

\* dict.get(key, default)
Get(dict, key, default) == IF key \in DOMAIN dict THEN dict[key] ELSE default

\* Python truthiness of an Optional[str]
Truthy(x) == x # None /\ x[1] # ""

\* Context.to_dict: the messages become dicts (asdict), the rest is copied
to_dict(context) ==
    [conversation_id |-> context.conversation_id,
     project_id |-> context.project_id,
     messages |-> [i \in 1..Len(context.messages) |->
                      [role |-> context.messages[i].role,
                       content |-> context.messages[i].content,
                       timestamp |-> context.messages[i].timestamp]],
     codebase_context |-> context.codebase_context,
     tool_history |-> context.tool_history]

\* JSON text, as its syntax tree: null, string, number, array, object
JNull == <<"null">>
JStr(s) == <<"str", s>>
JNum(n) == <<"num", n>>
JArr(q) == <<"arr", q>>
JObj(f) == <<"obj", f>>

\* json.dumps of the values a context dict holds
dumps_optional_str(x) == IF x = None THEN JNull ELSE JStr(x[1])

dumps_message(m) ==
    JObj([role |-> JStr(m.role), content |-> JStr(m.content),
          timestamp |-> JNum(m.timestamp)])

dumps_tool_call(t) ==
    JObj([tool |-> JStr(t.tool), timestamp |-> JNum(t.timestamp),
          request |-> JStr(t.request), response |-> JStr(t.response)])

dumps_codebase_context(x) ==
    IF x = None THEN JNull
    ELSE JObj([files |-> JArr([i \in 1..Len(x[1].files) |-> JStr(x[1].files[i])])])

json_dumps(data) ==
    JObj([conversation_id |-> JStr(data.conversation_id),
          project_id |-> dumps_optional_str(data.project_id),
          messages |-> JArr([i \in 1..Len(data.messages) |->
                                dumps_message(data.messages[i])]),
          codebase_context |-> dumps_codebase_context(data.codebase_context),
          tool_history |-> JArr([i \in 1..Len(data.tool_history) |->
                                    dumps_tool_call(data.tool_history[i])])])

\* json.loads of such a text
loads_optional_str(j) == IF j[1] = "null" THEN None ELSE Some(j[2])

loads_message(j) ==
    [role |-> j[2].role[2], content |-> j[2].content[2],
     timestamp |-> j[2].timestamp[2]]

loads_tool_call(j) ==
    [tool |-> j[2].tool[2], timestamp |-> j[2].timestamp[2],
     request |-> j[2].request[2], response |-> j[2].response[2]]

loads_codebase_context(j) ==
    IF j[1] = "null" THEN None
    ELSE Some([files |-> [i \in 1..Len(j[2].files[2]) |-> j[2].files[2][i][2]]])

json_loads(text) ==
    [conversation_id |-> text[2].conversation_id[2],
     project_id |-> loads_optional_str(text[2].project_id),
     messages |-> [i \in 1..Len(text[2].messages[2]) |->
                      loads_message(text[2].messages[2][i])],
     codebase_context |-> loads_codebase_context(text[2].codebase_context),
     tool_history |-> [i \in 1..Len(text[2].tool_history[2]) |->
                          loads_tool_call(text[2].tool_history[2][i])]]

\* Context.from_dict
from_dict(data) ==
    LET msgs == Get(data, "messages", <<>>)
    IN Context(data["conversation_id"],
               Get(data, "project_id", None),
               [i \in 1..Len(msgs) |->
                   Message(msgs[i].role, msgs[i].content, msgs[i].timestamp)],
               Get(data, "codebase_context", None),
               Get(data, "tool_history", <<>>))

\* SQLiteStorage.save_context: INSERT OR REPLACE INTO contexts, committed.
\* The columns project_id and updated_at are written too; nothing reads them
\* back into a Context, so the table is kept as conversation_id -> data.
sqlite_save_context_ignore(table, conversation_id, data) ==
    [c \in DOMAIN table \cup {conversation_id} |->
        IF c \in DOMAIN table THEN table[c] ELSE data]

sqlite_save_context(table, conversation_id, data) ==
    [c \in DOMAIN table \cup {conversation_id} |->
        IF c = conversation_id THEN data ELSE table[c]]

\* SQLiteStorage.load_context: SELECT data FROM contexts WHERE conversation_id = ?
sqlite_load_context(table, conversation_id) ==
    IF conversation_id \in DOMAIN table THEN Some(table[conversation_id]) ELSE None

\* SQLiteStorage.add_message: INSERT INTO messages, committed
sqlite_add_message_upsert(rows, conversation_id, role, content, timestamp) ==
    LET row == [conversation_id |-> conversation_id, role |-> role,
                content |-> content, timestamp |-> timestamp]
        keep(x) == ~(x.conversation_id = conversation_id /\ x.role = role)
    IN Append(SelectSeq(rows, keep), row)

sqlite_add_message(rows, conversation_id, role, content, timestamp) ==
    Append(rows, [conversation_id |-> conversation_id, role |-> role,
                  content |-> content, timestamp |-> timestamp])

\* ContextManager.save_context and ContextManager.get_context
save_context(table, context) ==
    sqlite_save_context(table, context.conversation_id, json_dumps(to_dict(context)))

get_context(table, conversation_id) ==
    LET data_str == sqlite_load_context(table, conversation_id)
    IN IF data_str # None THEN Some(from_dict(json_loads(data_str[1]))) ELSE None

\* the in-memory half of add_message and of add_tool_call
add_message_dropped(context, role, content, timestamp) == context

add_message(context, role, content, timestamp) ==
    [context EXCEPT !.messages = Append(@, Message(role, content, timestamp))]

add_tool_call(context, tool, timestamp, request, response) ==
    [context EXCEPT !.tool_history =
        Append(@, [tool |-> tool, timestamp |-> timestamp,
                   request |-> request, response |-> response])]

\* the contexts handed to save_context: every prefix of a conversation and of
\* a tool history, with and without a project id and a codebase context
CXIds == {"c1", "c2"}

PrefixesUpTo(q, n) == {SubSeq(q, 1, k) : k \in 0..Min(n, Len(q))}

CXConversation ==
    [i \in 1..MaxMessages |->
        Message(IF i % 2 = 1 THEN "user" ELSE "assistant",
                IF i % 2 = 1 THEN <<"fix", "bug">> ELSE <<"reply">>, i)]

CXToolHistory ==
    [i \in 1..MaxToolCalls |->
        [tool |-> "gpt", timestamp |-> i, request |-> <<"fix", "bug">>,
         response |-> <<"reply">>]]

CXContexts ==
    {Context(c, p, m, cc, th) :
        c \in CXIds, p \in {None, Some("p1")},
        m \in PrefixesUpTo(CXConversation, MaxMessages),
        cc \in {None, Some([files |-> <<"a.py">>])},
        th \in PrefixesUpTo(CXToolHistory, MaxToolCalls)}

NoTable == [c \in {} |-> JNull]

CXIdle ==
    /\ cx_contexts = NoTable
    /\ cx_saved = [c \in CXIds |-> [context |-> None, saves |-> 0]]
    /\ cx_got = None

(***************************************************************************)
(* router.py, utils/adapters.py and the chat handler of api/routes.py      *)
(***************************************************************************)
MaxRequests == 2       \* chat requests received in one behaviour
ChatMaxTime == 1       \* the handler's clock runs from 1 to ChatMaxTime
Slots == {1, 2}        \* requests handled at the same time

\* str.lower(), on the words the requests use
Lower(w) ==
    CASE w = "Hello" -> "hello"
      [] w = "Fix" -> "fix"
      [] w = "Write" -> "write"
      [] OTHER -> w

lower(message) == [i \in 1..Len(message) |-> Lower(message[i])]

\* Router._analyze_request.  A message is its sequence of words and a keyword
\* matches when its words occur in it one after the other.
code_keywords ==
    {<<"refactor">>, <<"edit">>, <<"fix">>, <<"bug">>, <<"function">>, <<"class">>,
     <<"import">>, <<"code">>, <<"file">>, <<"module">>, <<"package">>, <<"syntax">>,
     <<"error">>, <<"compile">>, <<"test">>, <<"debug">>, <<"implement">>,
     <<"rewrite">>, <<"optimize">>}

research_keywords ==
    {<<"research">>, <<"find">>, <<"search">>, <<"what", "is">>, <<"explain">>,
     <<"how", "does">>, <<"information">>, <<"article">>, <<"paper">>, <<"source">>,
     <<"citation">>, <<"reference">>, <<"learn", "about">>, <<"tell", "me", "about">>,
     <<"investigate">>}

terminal_keywords ==
    {<<"run">>, <<"execute">>, <<"command">>, <<"terminal">>, <<"shell">>, <<"script">>,
     <<"automate">>, <<"workflow">>, <<"cli">>, <<"bash">>, <<"zsh">>}

generation_keywords ==
    {<<"generate">>, <<"create">>, <<"write">>, <<"make">>, <<"build">>, <<"new">>,
     <<"scaffold">>, <<"boilerplate">>, <<"template">>}

analyze_request(message) ==
    LET low == lower(message)
        any(keywords) == \E kw \in keywords : StrIn(kw, low)
    IN IF any(code_keywords) THEN "code_editing"
       ELSE IF any(research_keywords) THEN "research"
       ELSE IF any(terminal_keywords) THEN "terminal_automation"
       ELSE IF any(generation_keywords) THEN "code_editing"
       ELSE "general_chat"

\* Router._select_tools
select_tools(router, task_type) ==
    LET rule_key == CASE task_type = "code_editing" -> "code_editing"
                      [] task_type = "research" -> "research"
                      [] task_type = "terminal_automation" -> "general_chat"
                      [] OTHER -> "general_chat"
    IN Get(router.routing_rules, rule_key, <<router.default_tool>>)

\* Router.route: the decision's selected_tools
route(router, message, explicit_tool) ==
    IF Truthy(explicit_tool) THEN <<explicit_tool[1]>>
    ELSE select_tools(router, analyze_request(message))

\* get_router(): the three rule lists of the configuration
get_router(config) ==
    [routing_rules |-> [code_editing |-> config.routing.code_editing,
                        research |-> config.routing.research,
                        general_chat |-> config.routing.general_chat],
     default_tool |-> config.routing.default_tool]

\* get_adapters(config): the adapters that are enabled and have an API key
get_adapters(config) == config.adapters

\* chat, "Select tool": the explicit tool, else the first tool of the decision
\* that is in the adapter map
select_tool_last(request_tool, selected_tools, adapters) ==
    LET present == {i \in 1..Len(selected_tools) : selected_tools[i] \in adapters}
    IN IF Truthy(request_tool) THEN Some(request_tool[1])
       ELSE IF present = {} THEN None
       ELSE Some(selected_tools[SetMax(present)])

select_tool(request_tool, selected_tools, adapters) ==
    LET present == {i \in 1..Len(selected_tools) : selected_tools[i] \in adapters}
    IN IF Truthy(request_tool) THEN Some(request_tool[1])
       ELSE IF present = {} THEN None
       ELSE Some(selected_tools[CHOOSE i \in present : \A j \in present : i <= j])

\* retry_policy = ExponentialBackoffRetry(max_attempts=3)
chat_retry_policy == RetryPolicy(3)

\* uuid.uuid4(): a fresh identifier per call
uuid4(n) == "uuid-" \o ToString(n)

\* the configurations, the requests and what an adapter's chat() does
AdapterNames == {"claude", "gpt"}

Routings ==
    {[code_editing |-> <<"cursor", "gpt", "claude">>, research |-> <<"perplexity">>,
      general_chat |-> <<"claude">>, default_tool |-> "claude"]}

ChatMessages == {<<"Hello">>, <<"Fix", "bug">>}

ChatTools == {None, Some("gpt")}

ChatProjects == {None}

AdapterOutcomes ==
    {<<"return", [content |-> <<"reply">>, usage |-> u]>> : u \in BOOLEAN}
    \cup {<<"raise", ConnectionError>>, <<"raise", ValueError>>}

\* asyncio.create_task(coro): the task of request `seq` running `name`, not
\* started yet; nobody awaits it
create_task(seq, name) == [seq |-> seq, name |-> name, at |-> "pending"]

IdleRequest ==
    [pc |-> "idle", seq |-> 0,
     message |-> <<>>, conversation_id |-> None, project_id |-> None, tool |-> None,
     selected |-> None, context |-> None, loaded |-> None, created |-> FALSE,
     attempt |-> 0, invoked |-> {}, response |-> None, spawned |-> {},
     status |-> 0, streak |-> 0, before |-> None]

InFlight(q) == q.pc \notin {"idle", "done"}

\* return ChatResponse(...), raise HTTPException(status_code=...), or an
\* exception the server turns into 500: the handler's locals are gone, the
\* slot keeps the request and its response.
Respond(q, status) ==
    [IdleRequest EXCEPT !.pc = "done", !.status = status,
        !.message = q.message, !.tool = q.tool,
        !.conversation_id = IF status = 200 THEN Some(q.context[1].conversation_id)
                            ELSE q.conversation_id,
        !.selected = IF status = 200 THEN q.selected ELSE None,
        !.response = IF status = 200 THEN q.response ELSE None]

CHIdle ==
    /\ ch_config = [adapters |-> {}, routing |-> CHOOSE r \in Routings : TRUE]
    /\ ch_contexts = NoTable
    /\ ch_messages = <<>>
    /\ ch_req = [r \in Slots |-> IdleRequest]
    /\ ch_started = 0
    /\ ch_now = 1
    /\ ch_streak = [a \in AdapterNames |-> 0]
    /\ ch_tasks = {}
    /\ ch_logged = {}
    /\ ch_audit_logs = {}
    /\ ch_cost_records = {}

(***************************************************************************)
(* security/auth.py, api/auth_routes.py and the users, api_keys and        *)
(* audit_logs tables of storage/sqlite.py                                  *)
(***************************************************************************)
MaxKeys == 2           \* API keys issued in one behaviour
AKMaxTime == 2         \* the clock runs from 1 to AKMaxTime; one tick is one day
MaxAudited == 2        \* rows in audit_logs

\* secrets.token_urlsafe(32): a fresh secret per call
token_urlsafe(n) == "token-" \o ToString(n)

\* a hash_api_key that keeps the key as it is
hash_api_key_plain(api_key) == api_key

\* hash_api_key: hashlib.sha256(api_key.encode()).hexdigest()
hash_api_key(api_key) == "sha256:" \o api_key

\* list_api_keys: row["key_hash"][:8] + "..."
partial_hash(key_hash) == "[:8]" \o key_hash \o "..."

\* the users table at the start, the keys a client may present, the path
\* parameters and request bodies
UserIds == {"u1", "u2"}
PathUserIds == UserIds \cup {"api_user"}
LegacyKey == "legacy-key"
EnvKey == "env-key"
KeyNames == {Some("laptop")}
NewUsernames == {"u2", "carol"}
ExpiresDays == {None, Some(1)}

IssuedKeys(n) == {token_urlsafe(i) : i \in 1..n}

\* where a request carries an API key
Channels == {"X-API-Key", "Bearer", "api_key"}

\* len(token): token_urlsafe(32) is 43 characters of base64
TokenLen == 43
LongKeyLen == 64
len(api_key) == IF api_key \in {LegacyKey, EnvKey} THEN LongKeyLen ELSE TokenLen

\* authenticate_api_key_from_request: the key the request is taken to carry
authenticate_api_key_from_request(channel, api_key) ==
    CASE channel = "X-API-Key" -> Some(api_key)
      [] channel = "Bearer" -> IF len(api_key) > 50 THEN Some(api_key) ELSE None
      [] OTHER -> Some(api_key)

\* what a request carries: a valid access token of a user, an API key in
\* one of the three places, or nothing
Credentials(n, channels) ==
    {<<"jwt", [user_id |-> u, username |-> u,
               role |-> IF u = "u1" THEN "admin" ELSE "user"]>> : u \in UserIds}
    \cup {<<"key", k, channel>> :
             k \in IssuedKeys(n) \cup {LegacyKey, EnvKey}, channel \in channels}
    \cup {<<"none">>}

\* SQLiteStorage.get_user_by_api_key_hash
get_user_by_api_key_hash(users, api_keys, api_key_hash, now) ==
    LET legacy == {u \in DOMAIN users : users[u].api_key_hash = Some(api_key_hash)}
        joined == {k \in DOMAIN api_keys :
                      /\ api_keys[k].key_hash = api_key_hash
                      /\ api_keys[k].revoked_at = None
                      /\ \/ api_keys[k].expires_at = None
                         \/ api_keys[k].expires_at[1] > now
                      /\ api_keys[k].user_id \in DOMAIN users}
        row(u) == Some([user_id |-> u, username |-> users[u].username,
                        role |-> users[u].role])
    IN IF legacy # {} THEN row(CHOOSE u \in legacy : TRUE)
       ELSE IF joined # {} THEN row(api_keys[CHOOSE k \in joined : TRUE].user_id)
       ELSE None

\* SQLiteStorage.create_api_key: INSERT INTO api_keys
sqlite_create_api_key(api_keys, key_id, user_id, key_hash, name, expires_at) ==
    [k \in DOMAIN api_keys \cup {key_id} |->
        IF k = key_id
        THEN [user_id |-> user_id, key_hash |-> key_hash, name |-> name,
              expires_at |-> expires_at, revoked_at |-> None]
        ELSE api_keys[k]]

\* SQLiteStorage.revoke_api_key: UPDATE api_keys SET revoked_at = now WHERE id = ?
sqlite_revoke_api_key(api_keys, key_id, now) ==
    [k \in DOMAIN api_keys |->
        IF k = key_id THEN [api_keys[k] EXCEPT !.revoked_at = Some(now)]
        ELSE api_keys[k]]

\* SQLiteStorage.list_api_keys
sqlite_list_api_keys(api_keys, user_id, now) ==
    {[id |-> k, key_hash |-> partial_hash(api_keys[k].key_hash),
      name |-> api_keys[k].name,
      expires_at |-> api_keys[k].expires_at,
      revoked_at |-> api_keys[k].revoked_at,
      is_active |-> /\ api_keys[k].revoked_at = None
                    /\ \/ api_keys[k].expires_at = None
                       \/ api_keys[k].expires_at[1] > now] :
        k \in {i \in DOMAIN api_keys : api_keys[i].user_id = user_id}}

\* SQLiteStorage.get_api_key
sqlite_get_api_key(api_keys, key_id) ==
    IF key_id \in DOMAIN api_keys
    THEN Some([id |-> key_id] @@ api_keys[key_id])
    ELSE None

\* SQLiteStorage.get_user
sqlite_get_user(users, user_id) ==
    IF user_id \in DOMAIN users
    THEN Some([user_id |-> user_id, username |-> users[user_id].username,
               email |-> users[user_id].email, role |-> users[user_id].role,
               api_key_hash |-> users[user_id].api_key_hash])
    ELSE None

\* SQLiteStorage.get_user_by_username
sqlite_get_user_by_username(users, username) ==
    LET found == {u \in DOMAIN users : users[u].username = username}
    IN IF found = {} THEN None
       ELSE LET u == CHOOSE x \in found : TRUE
            IN Some([user_id |-> u] @@ users[u])

\* SQLiteStorage.create_user: INSERT OR REPLACE INTO users.  id is the
\* primary key, username and email are UNIQUE: the rows that clash with the
\* new row on any of them are deleted, then the row is inserted.
sqlite_create_user(users, user_id, username, email, password_hash, role) ==
    LET clash == {u \in DOMAIN users :
                     \/ u = user_id
                     \/ users[u].username = username
                     \/ email # None /\ users[u].email = email}
    IN [u \in (DOMAIN users \ clash) \cup {user_id} |->
           IF u = user_id
           THEN [username |-> username, email |-> email,
                 password_hash |-> password_hash, role |-> role,
                 api_key_hash |-> None]
           ELSE users[u]]

\* hash_password: a bcrypt hash of the password
hash_password(password) == "bcrypt:" \o password

\* authenticate_api_key: the database, then the VALID_API_KEY fallback
authenticate_api_key(users, api_keys, env, channel, key, now) ==
    LET api_key == authenticate_api_key_from_request(channel, key)
        user == get_user_by_api_key_hash(users, api_keys, hash_api_key(api_key[1]), now)
    IN IF api_key = None THEN None
       ELSE IF user # None THEN user
       ELSE IF env # None /\ api_key[1] = env[1]
       THEN Some([user_id |-> "api_user", username |-> "", role |-> "user"])
       ELSE None

\* get_current_user: the access token first, then the API key
get_current_user(users, api_keys, env, credential, now) ==
    CASE credential[1] = "jwt" -> Some(credential[2])
      [] credential[1] = "key" ->
            authenticate_api_key(users, api_keys, env, credential[3], credential[2], now)
      [] OTHER -> None

\* AuditLogger.log_event over SQLiteStorage.log_audit_event
log_audit_event(audit_logs, event_type, user_id, resource_type, resource_id, details) ==
    Append(audit_logs, [event_type |-> event_type, user_id |-> user_id,
                        resource_type |-> resource_type, resource_id |-> resource_id,
                        details |-> details])

\* the last response, and for an authentication attempt what it presented
NotPresented == <<"none">>

NoResponse == [op |-> "none", credential |-> NotPresented, status |-> 0, body |-> <<>>]

Response(op, credential, status, body) ==
    [op |-> op, credential |-> credential, status |-> status, body |-> body]

InitialUsers(legacy) ==
    [u \in UserIds |->
        [username |-> u, email |-> None, password_hash |-> None,
         role |-> IF u = "u1" THEN "admin" ELSE "user",
         api_key_hash |-> IF u = "u2" /\ legacy THEN Some(hash_api_key(LegacyKey))
                          ELSE None]]

AKIdle ==
    /\ ak_users = InitialUsers(FALSE)
    /\ ak_api_keys = NoTable
    /\ ak_audit_logs = <<>>
    /\ ak_env = None
    /\ ak_now = 1
    /\ ak_issued = 0
    /\ ak_out = NoResponse

(***************************************************************************)
(* api/websocket.py: one connection of handle_websocket_chat               *)
(***************************************************************************)
MaxFrames == 3         \* frames the client sends on the connection
MaxChunks == 2         \* chunks an adapter streams for one chat

MobileApiKey == "secret"

\* config.api.api_key as load_config() leaves it
MobileApiKeys == {None, Some(MobileApiKey)}

\* the JSON objects a client sends; a missing key is None
ClientFrame(type, api_key, message, tool) ==
    [type |-> type, api_key |-> api_key, message |-> message, tool |-> tool]

AuthFrames ==
    {ClientFrame(Some("auth"), k, <<>>, None) : k \in {None, Some(MobileApiKey), Some("bad")}}

ChatFrames ==
    {ClientFrame(t, None, m, tool) :
        t \in {None, Some("chat")}, m \in ChatMessages, tool \in ChatTools}

PingFrames == {ClientFrame(Some("ping"), None, <<>>, None)}

OtherFrames == {ClientFrame(Some("hello"), None, <<>>, None)}

\* what adapter.stream_chat does when iterated: chunks, then the end or an exception
StreamOutcomes == [chunks : 0..MaxChunks, raises : BOOLEAN]

\* a call of an async def without await: the coroutine object, not its result
Coroutine(name) == [cr_code |-> name]

\* getattr succeeds on the attributes the object has
HasAttr(obj, name) == name \in DOMAIN obj

\* WebSocketManager.send_message: sends only while the connection is registered
send_message(conn, message) ==
    IF conn.connected THEN [conn EXCEPT !.sent = Append(@, message)] ELSE conn

\* WebSocketManager.disconnect
disconnect(conn) == [conn EXCEPT !.connected = FALSE]

\* the handler leaves its loop: finally ws_manager.disconnect, and the
\* endpoint returns, which closes the socket
leave(conn) == [disconnect(conn) EXCEPT !.running = FALSE]

RECURSIVE send_chunks(_, _)
send_chunks(conn, n) ==
    IF n = 0 THEN conn
    ELSE send_chunks(send_message(conn, [type |-> "chunk", content |-> "chunk"]), n - 1)

\* handle_websocket_chat, "if message_type == 'chat'": lines 124-184
handle_chat(conn, data, router, adapters, outcome) ==
    LET context == Coroutine("get_or_create_context")
    IN IF ~HasAttr(context, "conversation_id")
       THEN \* AttributeError outside the inner try: caught at line 193
            leave(conn)
       ELSE LET routing_decision == route(router, data.message, data.tool)
                selected_tool == routing_decision[1]
                routed == [conn EXCEPT !.routed = @ + 1]
            IN IF selected_tool \notin adapters
               THEN send_message(routed, [type |-> "error",
                                          message |-> "Tool not available"])
               ELSE LET started == send_message(routed, [type |-> "start",
                                                         tool |-> selected_tool])
                        invoked == [started EXCEPT !.invoked = @ \cup {selected_tool}]
                        streamed == send_chunks(invoked, outcome.chunks)
                    IN IF outcome.raises
                       THEN send_message(streamed, [type |-> "error",
                                                    message |-> "str(e)"])
                       ELSE send_message(streamed, [type |-> "end"])

\* an authentication requirement that never holds
auth_required_never(conn) == FALSE

\* "if not authenticated and mobile_api_key", line 117
auth_required(conn) == ~conn.authenticated /\ Truthy(conn.mobile_api_key)

\* handle_websocket_chat: one turn of the while loop on the frame received
handle_frame(conn, data, router, adapters, outcome) ==
    LET message_type == IF data.type = None THEN "chat" ELSE data.type[1]
        mobile_api_key == conn.mobile_api_key
    IN IF message_type = "auth"
       THEN IF Truthy(mobile_api_key)
            THEN IF data.api_key = mobile_api_key
                 THEN send_message([conn EXCEPT !.authenticated = TRUE],
                                   [type |-> "auth_success"])
                 ELSE leave(send_message(conn, [type |-> "error",
                                                message |-> "Invalid API key"]))
            ELSE send_message([conn EXCEPT !.authenticated = TRUE],
                              [type |-> "auth_success"])
       ELSE IF auth_required(conn)
       THEN send_message(conn, [type |-> "error",
                                message |-> "Authentication required. Send auth message first."])
       ELSE CASE message_type = "chat" ->
                    handle_chat(conn, data, router, adapters, outcome)
              [] message_type = "ping" -> send_message(conn, [type |-> "pong"])
              [] OTHER -> conn

\* the connection after ws_manager.connect and lines 62-84
Connection(mobile_api_key) ==
    [mobile_api_key |-> mobile_api_key,
     authenticated |-> mobile_api_key = None,
     connected |-> TRUE,
     running |-> TRUE,
     sent |-> <<>>,
     routed |-> 0,
     invoked |-> {}]

\* WebSocketManager.send_message, lines 36-42, with the outcome of
\* websocket.send_json: an Exception is logged and the connection removed
\* from active_connections; nothing is raised to the caller
send_message_or_drop(conn, message, send_json_raises) ==
    IF ~conn.connected THEN conn
    ELSE IF send_json_raises THEN disconnect(conn)
    ELSE send_message(conn, message)

\* the stream_chat async generator of one exchange, nothing pulled yet
Stream(outcome) == [chunks |-> outcome.chunks, raises |-> outcome.raises,
                    pulled |-> 0, pulled_after_drop |-> 0]

NoWrites == [messages |-> <<>>, saved |-> FALSE, never_awaited |-> 0]

SXIdle ==
    /\ sx_conn = Connection(None)
    /\ sx_gone = FALSE
    /\ sx_stream = Stream([chunks |-> 0, raises |-> FALSE])
    /\ sx_pc = "done"
    /\ sx_context = NoWrites

\* the role and content of the messages of a context
Exchange(messages) ==
    [i \in DOMAIN messages |-> [role |-> messages[i].role, content |-> messages[i].content]]

\* POST /chat on a new conversation when the adapter returns `reply` and no
\* database call fails: routes.py 126-156 (500, 400 or the selected tool),
\* then 159-225
http_chat(config, message, tool, reply) ==
    LET adapters == get_adapters(config)
        routing_decision == route(get_router(config), message, tool)
        selected_tool_name == select_tool(tool, routing_decision, adapters)
        context == Context("c1", None, <<>>, None, <<>>)
        saved == add_message(add_message(context, "user", message, 1),
                             "assistant", reply, 1)
    IN IF adapters = {}
       THEN [status |-> 500, tool |-> None, messages |-> <<>>]
       ELSE IF selected_tool_name = None \/ selected_tool_name[1] \notin adapters
       THEN [status |-> 400, tool |-> None, messages |-> <<>>]
       ELSE [status |-> 200, tool |-> selected_tool_name,
             messages |-> Exchange(saved.messages)]

\* websocket.py 142-145: the first tool of the decision, if it has an adapter
ws_select_tool(selected_tools, adapters) ==
    LET selected_tool == selected_tools[1]
    IN IF selected_tool \in adapters THEN Some(selected_tool) ELSE None

\* websocket.py 175-177 as written: three coroutines, none awaited
ws_update_context(messages, message) == messages

\* the same lines with the awaits they lack
ws_update_context_awaited(messages, message) ==
    messages \o <<[role |-> "user", content |-> message],
                  [role |-> "assistant", content |-> <<"Response", "streamed">>]>>

\* a chat frame on a connection that needs no authentication, the adapter
\* streaming `reply` as one chunk
ws_chat(config, message, tool, reply) ==
    LET conn == handle_chat(Connection(None), ClientFrame(Some("chat"), None, message, tool),
                            get_router(config), get_adapters(config),
                            [chunks |-> 1, raises |-> FALSE])
        ended == \E i \in DOMAIN conn.sent : conn.sent[i].type = "end"
    IN [running |-> conn.running,
        tool |-> IF conn.invoked = {} THEN None
                 ELSE Some(CHOOSE a \in conn.invoked : TRUE),
        messages |-> IF ended THEN ws_update_context(<<>>, message) ELSE <<>>]

PXReplies == {<<"reply">>, <<"pong">>}
PXTools == {None, Some("gpt"), Some("claude")}

PXCases ==
    [config : [adapters : SUBSET AdapterNames, routing : Routings],
     message : ChatMessages, tool : PXTools, reply : PXReplies]

PXIdle ==
    /\ px_case = [config |-> [adapters |-> {}, routing |-> CHOOSE r \in Routings : TRUE],
                  message |-> <<"Hello">>, tool |-> None, reply |-> <<"reply">>]
    /\ px_http = None
    /\ px_ws = None

WSIdle ==
    /\ ws_config = [adapters |-> {}, routing |-> CHOOSE r \in Routings : TRUE]
    /\ ws_conn = Connection(None)
    /\ ws_received = <<>>

(***************************************************************************)
(* migrate_up statement by statement: SQLiteStorage's transaction calls on *)
(* sqlite3 connections, for runs that overlap                              *)
(***************************************************************************)
Runners == {1, 2}

\* the database as committed: version rows and the versions whose schema
\* objects exist
Database(rows, schema) == [rows |-> rows, schema |-> schema]

\* a connection: whether a transaction is open, and what it has written
\* and not committed
SqliteConnection(in_txn, dirty, rows, schema) ==
    [in_txn |-> in_txn, dirty |-> dirty, rows |-> rows, schema |-> schema]

CleanConnection == SqliteConnection(FALSE, FALSE, {}, {})

\* what a statement on the connection sees
View(db, conn) == IF conn.dirty THEN Database(conn.rows, conn.schema) ELSE db

\* SQLiteStorage.begin_transaction: execute("BEGIN"); None is sqlite3's
\* "cannot start a transaction within a transaction"
begin_transaction(conn) ==
    IF conn.in_txn THEN None ELSE Some([conn EXCEPT !.in_txn = TRUE])

\* connection.execute of a statement that writes: inside a transaction the
\* change is pending, outside one a schema statement commits at once and
\* an INSERT opens a transaction first
execute(db, conn, after, is_dml) ==
    IF conn.in_txn \/ is_dml
    THEN <<db, SqliteConnection(TRUE, TRUE, after.rows, after.schema)>>
    ELSE <<after, conn>>

\* SQLiteStorage.commit_transaction, and the commit inside execute_migration
commit_transaction(db, conn) == <<View(db, conn), CleanConnection>>

\* SQLiteStorage.rollback_transaction
rollback_transaction(db, conn) == <<db, CleanConnection>>

\* SQLiteStorage.execute_migration(up_sql): the first half, the statement
execute_migration(db, conn, version) ==
    LET seen == View(db, conn)
    IN execute(db, conn, Database(seen.rows, seen.schema \cup {version}), FALSE)

\* INSERT INTO schema_migrations (version, name) VALUES (?, ?); None is the
\* primary key's IntegrityError, which leaves the implicit transaction open
insert_version(db, conn, version) ==
    LET seen == View(db, conn)
    IN IF version \in seen.rows
       THEN <<db, [conn EXCEPT !.in_txn = TRUE], FALSE>>
       ELSE execute(db, conn, Database(seen.rows \cup {version}, seen.schema), TRUE)
            \o <<TRUE>>

NoRun ==
    [pc |-> "idle", current_version |-> None, applied |-> {}, target |-> 0,
     todo |-> <<>>, result |-> "none"]

MCIdle ==
    /\ mc_shared = FALSE
    /\ mc_migrations = <<>>
    /\ mc_db = Database({}, {})
    /\ mc_conn = [c \in Runners |-> CleanConnection]
    /\ mc_run = [r \in Runners |-> NoRun]

(***************************************************************************)
(* context_manager.py: manage_window and compress, the Python fallbacks    *)
(* (the pyo3 bridge is not importable, so window_manager and compressor    *)
(* are None)                                                               *)
(***************************************************************************)
MaxWindowMessages == 3     \* messages appended to the context, one per clock second

RECURSIVE Repeat(_, _)
\* c * n
Repeat(c, n) ==
    IF n = 0 THEN ""
    ELSE IF n % 2 = 0 THEN LET h == Repeat(c, n \div 2) IN h \o h
         ELSE c \o Repeat(c, n - 1)

\* a paste of 2001 characters; two pastes differ in the middle character only
Paste(mid) == Repeat("a", 1000) \o mid \o Repeat("b", 1000)

WMRoles == {"system", "user", "assistant"}
WMContents == {"yes", "abcdefgh", Paste("X"), Paste("Y")}
WMModels == {"gpt-4", "gpt-3.5-turbo", "llama"}
WMReserved == {None, Some(0), Some(4093), Some(4095), Some(4097)}

\* model_windows.get(model, 4096)
model_windows ==
    [m \in {"gpt-4", "gpt-3.5-turbo", "claude-3-5-sonnet-20241022",
            "claude-3-opus", "claude-3-sonnet", "claude-3-haiku"} |->
        IF m = "gpt-4" THEN 8192
        ELSE IF m = "gpt-3.5-turbo" THEN 4096
        ELSE 200000]

window_size(model) == Get(model_windows, model, 4096)

RECURSIVE total_chars(_)
\* sum(len(msg.content) for msg in messages)
total_chars(messages) ==
    IF messages = <<>> THEN 0
    ELSE Len(Head(messages).content) + total_chars(Tail(messages))

\* the estimate that decides whether manage_window trims: 4 chars to a token
estimated_tokens(messages) == total_chars(messages) \div 4

\* len([m for m in kept_messages if m.role == "system"])
count_system(kept_messages) ==
    Cardinality({i \in 1..Len(kept_messages) : kept_messages[i].role = "system"})

\* list.insert(index, x)
insert(list, index, x) ==
    LET i == Min(index, Len(list)) IN
    SubSeq(list, 1, i) \o <<x>> \o SubSeq(list, i + 1, Len(list))

RECURSIVE keep_system(_, _, _, _)
\* the first loop of _manage_window_python: every system message that fits
keep_system(messages, kept_messages, token_count, available_tokens) ==
    IF messages = <<>>
    THEN [kept_messages |-> kept_messages, token_count |-> token_count]
    ELSE LET msg == Head(messages)
             msg_tokens == Len(msg.content) \div 4
         IN IF msg.role = "system" /\ token_count + msg_tokens <= available_tokens
            THEN keep_system(Tail(messages), Append(kept_messages, msg),
                             token_count + msg_tokens, available_tokens)
            ELSE keep_system(Tail(messages), kept_messages, token_count,
                             available_tokens)

RECURSIVE keep_recent(_, _, _, _)
\* the second loop: `reversed` is reversed(context.messages); the newest
\* non-system messages, each inserted after the system messages, until one
\* does not fit
keep_recent(reversed, kept_messages, token_count, available_tokens) ==
    IF reversed = <<>> THEN kept_messages
    ELSE LET msg == Head(reversed)
             msg_tokens == Len(msg.content) \div 4
         IN IF msg.role = "system"
            THEN keep_recent(Tail(reversed), kept_messages, token_count,
                             available_tokens)
            ELSE IF token_count + msg_tokens <= available_tokens
            THEN keep_recent(Tail(reversed),
                             insert(kept_messages, count_system(kept_messages), msg),
                             token_count + msg_tokens, available_tokens)
            ELSE kept_messages

\* ContextManager._manage_window_python: context.messages afterwards
manage_window_python(messages, model, reserved_tokens) ==
    LET available_tokens == window_size(model) - reserved_tokens IN
    IF estimated_tokens(messages) <= available_tokens THEN messages
    ELSE LET sys == keep_system(messages, <<>>, 0, available_tokens)
             kept_messages == keep_recent(Reverse(messages), sys.kept_messages,
                                          sys.token_count, available_tokens)
         IN Reverse(kept_messages)

\* ContextManager.manage_window with window_manager None:
\* _manage_window_python(context, model, reserved_tokens or 1000)
manage_window(messages, model, reserved_tokens) ==
    manage_window_python(messages, model,
        IF reserved_tokens = None \/ reserved_tokens[1] = 0
        THEN 1000 ELSE reserved_tokens[1])

\* msg.content[:1000] + "... [truncated] ..." + msg.content[-1000:]
truncated(content) ==
    SubSeq(content, 1, Min(1000, Len(content)))
        \o "... [truncated] ..."
        \o SubSeq(content, Len(content) - Min(1000, Len(content)) + 1, Len(content))

RECURSIVE compress_from(_, _, _)
\* the loop of _compress_python from index i (1-based) on
compress_from(messages, i, compressed_messages) ==
    IF i > Len(messages) THEN compressed_messages
    ELSE LET msg == messages[i] IN
         IF i = 1 \/ msg.content # messages[i - 1].content
         THEN compress_from(messages, i + 1,
                  Append(compressed_messages,
                         IF Len(msg.content) > 2000
                         THEN Message(msg.role, truncated(msg.content), msg.timestamp)
                         ELSE msg))
         ELSE compress_from(messages, i + 1, compressed_messages)

\* ContextManager.compress with compressor None: _compress_python
compress(messages) == compress_from(messages, 1, <<>>)

NoCall == [op |-> "none", model |-> "", reserved_tokens |-> None,
           before |-> <<>>, after |-> <<>>]

WMIdle ==
    /\ wm_messages = <<>>
    /\ wm_call = NoCall

(***************************************************************************)
(* router.py: Router(routing_rules, default_tool).route on its own         *)
(***************************************************************************)
\* the rule lists a configuration may give, and the rule tables made of them
RuleLists ==
    [code_editing |-> <<"cursor", "gpt">>, research |-> <<"perplexity">>,
     general_chat |-> <<"claude">>]

\* Router(routing_rules, default_tool)
Router(routing_rules, default_tool) ==
    [routing_rules |-> routing_rules, default_tool |-> default_tool]

Routers ==
    {Router([k \in keys |-> RuleLists[k]], default_tool) :
        keys \in SUBSET DOMAIN RuleLists, default_tool \in {"claude", "local"}}

RouteMessages ==
    {<<"Hello">>, <<"Fix", "bug">>, <<"explain", "the", "error">>,
     <<"what", "is", "this">>, <<"run", "it">>, <<"make", "tea">>,
     <<"generate", "code">>, <<"Write", "a", "script">>,
     <<"create", "a", "research", "paper">>}

ExplicitTools == {None, Some(""), Some("gpt")}

NoDecision == [message |-> <<>>, explicit_tool |-> None, selected_tools |-> <<>>,
               routed |-> FALSE]

ROIdle ==
    /\ ro_router = Router(RuleLists, "claude")
    /\ ro_decision = NoDecision

(***************************************************************************)
(* security/authorization.py: roles, permissions, check_resource_access    *)
(***************************************************************************)
\* class Role
ADMIN == "admin"
USER == "user"
READONLY == "readonly"

\* ROLE_PERMISSIONS
ROLE_PERMISSIONS ==
    [r \in {ADMIN, USER, READONLY} |->
        IF r = ADMIN
        THEN {"chat:read", "chat:write", "chat:delete",
              "admin:manage", "admin:users", "admin:config",
              "project:read", "project:write", "project:delete"}
        ELSE IF r = USER
        THEN {"chat:read", "chat:write", "project:read", "project:write"}
        ELSE {"chat:read", "project:read"}]

\* get_user_role: user.get("role", "user") as a Role, USER when it is no Role
get_user_role(user) ==
    LET role_str == IF user.role = None THEN "user" ELSE user.role[1]
    IN IF role_str \in {ADMIN, USER, READONLY} THEN role_str ELSE USER

\* get_user_permissions and has_permission
get_user_permissions(user) == ROLE_PERMISSIONS[get_user_role(user)]

has_permission(user, permission) == permission \in get_user_permissions(user)

\* the three-way test on `action` that ends each branch of
\* check_resource_access; None when no arm returns
by_action(user, action, prefix) ==
    IF action \in {"read", "write", "delete"}
    THEN Some(has_permission(user, prefix \o ":" \o action))
    ELSE None

\* the try block of the project branch: None when it returns nothing
\* (an exception, or no indexed file of the project)
project_lookup(user, db, resource_id, action) ==
    IF ~db.readable THEN None
    ELSE IF resource_id \in db.indexed_files
         THEN by_action(user, action, "project")
         ELSE None

\* the try block of the conversation branch
conversation_lookup(user, db, resource_id, action) ==
    IF ~db.readable THEN None
    ELSE IF resource_id \in DOMAIN db.contexts
         THEN LET context_user_id == db.contexts[resource_id].user_id IN
              IF context_user_id = None \/ context_user_id = user.user_id
              THEN by_action(user, action, "chat")
              ELSE None
         ELSE None

\* the first of the results that is a return, else False
first_return(a, b) ==
    IF a # None THEN a[1] ELSE IF b # None THEN b[1] ELSE FALSE

\* check_resource_access(user, resource_type, resource_id, action)
check_resource_access(user, db, resource_type, resource_id, action) ==
    IF get_user_role(user) = ADMIN THEN TRUE
    ELSE IF ~Truthy(user.user_id) THEN FALSE
    ELSE IF resource_type = "project"
         THEN first_return(project_lookup(user, db, resource_id, action),
                           by_action(user, action, "project"))
    ELSE IF resource_type = "conversation"
         THEN first_return(conversation_lookup(user, db, resource_id, action),
                           by_action(user, action, "chat"))
    ELSE FALSE

\* the users, resources and actions of the calls
RAUsers ==
    [user_id : {None, Some(""), Some("u1"), Some("u2")},
     role : {None, Some("admin"), Some("user"), Some("readonly"), Some("guest")}]
RATypes == {"project", "conversation", "file"}
RAIds == {"r1"}
RAActions == {"read", "write", "delete", "share"}
RAOwners == {None, Some("u1"), Some("u2")}

NoCheck == [user |-> [user_id |-> None, role |-> None], resource_type |-> "",
            resource_id |-> "", action |-> "", result |-> FALSE, done |-> FALSE]

RAIdle ==
    /\ ra_db = [readable |-> TRUE, contexts |-> NoTable, indexed_files |-> {}]
    /\ ra_check = NoCheck

(***************************************************************************)
(* api/auth_routes.py create_user await by await: every request opens its  *)
(* own SQLiteStorage (security/auth.py get_storage_backend), so requests   *)
(* interleave at the awaits                                                *)
(***************************************************************************)
MaxCreates == 2        \* create-user requests in flight

CURequests == 1..MaxCreates

\* who asks, and CreateUserRequest: username, email, password, role
CUCallers == {[user_id |-> "u1", role |-> "admin"], [user_id |-> "u2", role |-> "user"]}
CUUsernames == {"u2", "carol", "dave"}
CUEmails == {None, Some("c@example.org")}
CUPasswords == {None, Some("pw")}

CreateUserRequests ==
    [username : CUUsernames, email : CUEmails, password : CUPasswords, role : {"user"}]

NoRequest ==
    [pc |-> "idle", admin_user |-> None, request |-> None, user |-> None, status |-> 0]

CUIdle ==
    /\ cu_users = InitialUsers(FALSE)
    /\ cu_audit_logs = <<>>
    /\ cu_issued = 0
    /\ cu_req = [r \in CURequests |-> NoRequest]

(***************************************************************************)
(* api/server.py, api/middleware.py, api/csrf.py, api/logging_middleware.py *)
(* A layer takes the request and answers with a response or raises.        *)
(***************************************************************************)
MWMaxTime == 60        \* the clock runs from 0 to MWMaxTime seconds
MWTick == 60           \* and advances by MWTick seconds
MaxBodySize == 10485760    \* 10 * 1024 * 1024

ConfiguredKey == "mobilekey-A"
SamePrefixKey == "mobilekey-B"     \* not the configured key, same first 8 characters
AccessToken == "eyJ.access.u1"     \* a valid JWT access token of user u1

Apps == [api_key : {None, Some(ConfiguredKey)}, enable_csrf : BOOLEAN,
         requests_per_minute : {1}]

MWRoutes == {<<"GET", "/health">>, <<"POST", "/api/v1/chat">>,
             <<"GET", "/api/v1/conversations/c1">>,
             <<"POST", "/api/v1/auth/users/u1/api-keys">>}

\* the requests sent: a CSRF token matters on POST only, and only the chat
\* request comes with a body over the limit
HttpRequests ==
    {q \in [method : {"GET", "POST"},
            path : {r[2] : r \in MWRoutes},
            x_api_key : {None, Some(ConfiguredKey), Some(SamePrefixKey)},
            bearer : {None, Some(AccessToken)},
            csrf : {"none", "match", "mismatch"},
            content_length : {None, Some(MaxBodySize + 1)},
            host : {"10.0.0.1"}] :
        /\ <<q.method, q.path>> \in MWRoutes
        /\ q.method = "GET" => q.csrf = "none"
        /\ q.content_length # None => q.path = "/api/v1/chat"}

HttpResponse(status, headers, by) ==
    [raised |-> FALSE, status |-> status, headers |-> headers, by |-> by]

\* raise HTTPException(status_code=...), or any other exception (500)
HttpRaise(status, by) == [raised |-> TRUE, status |-> status, headers |-> {}, by |-> by]

\* response.headers[name] = ... on the response call_next returned; an
\* exception raised further in passes through
set_headers(r, names) == IF r.raised THEN r ELSE [r EXCEPT !.headers = @ \cup names]

\* str.startswith
startswith(str, prefix) ==
    Len(str) >= Len(prefix) /\ SubSeq(str, 1, Len(prefix)) = prefix

\* require_auth: the access token first, then the API key against the
\* database, which holds no key here; VALID_API_KEY is not set
require_auth(request) == request.bearer = Some(AccessToken)

\* the routes: /health is open; the others depend on require_auth, whose
\* HTTPException(401) the router turns into a response; create_api_key
\* without expires_days raises UnboundLocalError
endpoint(request) ==
    IF request.path = "/health" THEN HttpResponse(200, {}, "route")
    ELSE IF ~require_auth(request) THEN HttpResponse(401, {}, "route")
    ELSE IF request.path = "/api/v1/auth/users/u1/api-keys"
    THEN HttpRaise(500, "route")
    ELSE HttpResponse(200, {}, "route")

\* server.py 48-59
limit_request_size(request) ==
    IF request.content_length # None /\ request.content_length[1] > MaxBodySize
    THEN HttpResponse(413, {}, "limit_request_size")
    ELSE endpoint(request)

\* CORSMiddleware: no Origin header in these requests, it passes them on;
\* RequestLoggingMiddleware.dispatch: the two id headers, re-raise
RequestLoggingMiddleware(request) ==
    set_headers(limit_request_size(request), {"X-Request-ID", "X-Correlation-ID"})

\* APIKeyMiddleware._extract_api_key and RateLimitMiddleware._extract_api_key
\* (the same code twice); no request here has an api_key query parameter
extract_api_key(request) ==
    IF Truthy(request.x_api_key) THEN request.x_api_key
    ELSE IF request.bearer # None THEN request.bearer
    ELSE None

\* APIKeyMiddleware._validate_key
validate_key(api_key, provided_key) ==
    IF ~Truthy(api_key) THEN TRUE
    ELSE IF ~Truthy(provided_key) THEN FALSE
    ELSE provided_key = api_key

any_startswith(path, prefixes) == \E public \in prefixes : startswith(path, public)

\* APIKeyMiddleware.dispatch
APIKeyMiddleware(app, request) ==
    IF request.path = "/" THEN RequestLoggingMiddleware(request)
    ELSE IF any_startswith(request.path,
                {"/health", "/metrics", "/static", "/api/v1/auth/login",
                 "/api/v1/auth/refresh", "/docs", "/openapi.json"})
    THEN RequestLoggingMiddleware(request)
    ELSE IF ~validate_key(app.api_key, extract_api_key(request))
    THEN HttpResponse(401, {"WWW-Authenticate"}, "APIKeyMiddleware")
    ELSE RequestLoggingMiddleware(request)

\* f"api_key:{api_key[:8]}", else request.client.host
client_id(request) ==
    LET api_key == extract_api_key(request)
    IN IF Truthy(api_key)
       THEN "api_key:" \o SubSeq(api_key[1], 1, Min(8, Len(api_key[1])))
       ELSE request.host

\* RateLimiter(requests_per_minute): capacity tokens, capacity/60 per second
RateLimiter(capacity, now) == TokenBucket(capacity, capacity, 60, now)

\* self.limiters[client_id] of the defaultdict
limiter_of(limiters, app, id, now) ==
    IF id \in DOMAIN limiters THEN limiters[id]
    ELSE RateLimiter(app.requests_per_minute, now)

\* RateLimitMiddleware.dispatch: <<the response, self.limiters afterwards>>
RateLimitMiddleware(app, limiters, request, now) ==
    IF request.path = "/" \/ any_startswith(request.path, {"/health", "/metrics", "/static"})
    THEN <<APIKeyMiddleware(app, request), limiters>>
    ELSE LET id == client_id(request)
             allow == try_acquire(limiter_of(limiters, app, id, now), now, 1)
             after == [c \in DOMAIN limiters \cup {id} |->
                          IF c = id THEN allow[1] ELSE limiters[c]]
         IN IF ~allow[2]
            THEN <<HttpResponse(429, {"X-RateLimit-Limit", "X-RateLimit-Remaining",
                                     "Retry-After"}, "RateLimitMiddleware"), after>>
            ELSE <<set_headers(APIKeyMiddleware(app, request),
                               {"X-RateLimit-Limit", "X-RateLimit-Remaining"}), after>>

security_headers ==
    {"X-Content-Type-Options", "X-Frame-Options", "X-XSS-Protection", "Referrer-Policy",
     "Permissions-Policy", "Content-Security-Policy", "X-Request-ID"}

\* SecurityHeadersMiddleware.dispatch, middleware.py 16-48 (scheme http)
SecurityHeadersMiddleware(app, limiters, request, now) ==
    LET inner == RateLimitMiddleware(app, limiters, request, now)
    IN <<set_headers(inner[1], security_headers), inner[2]>>

\* CSRFProtectionMiddleware._is_safe_method
is_safe_method(method) == method \in {"GET", "HEAD", "OPTIONS"}

\* CSRFProtectionMiddleware.dispatch
CSRFProtectionMiddleware(app, limiters, request, now) ==
    LET inner == SecurityHeadersMiddleware(app, limiters, request, now)
    IN IF is_safe_method(request.method)
       THEN <<set_headers(inner[1], {"Set-Cookie"}), inner[2]>>
       ELSE IF request.csrf # "match"
       THEN <<HttpRaise(403, "CSRFProtectionMiddleware"), limiters>>
       ELSE <<set_headers(inner[1], {"Set-Cookie"}), inner[2]>>

\* create_app: add_middleware puts each middleware in front of those added
\* before it, so the one added last runs first
create_app(app, limiters, request, now) ==
    IF app.enable_csrf
    THEN CSRFProtectionMiddleware(app, limiters, request, now)
    ELSE SecurityHeadersMiddleware(app, limiters, request, now)

\* global_exception_handler, server.py 225-257: an exception that leaves the
\* stack is answered outside every middleware, an HTTPException with its
\* status code and any other exception with 500; the response is a new
\* JSONResponse, with none of the headers a middleware sets
global_exception_handler(exc) == HttpResponse(exc.status, {}, exc.by)

\* the application as the server calls it
app_call(app, limiters, request, now) ==
    LET r == create_app(app, limiters, request, now)
    IN IF r[1].raised THEN <<global_exception_handler(r[1]), r[2]>> ELSE r

NoExchange ==
    [request |-> [method |-> "GET", path |-> "/health", x_api_key |-> None,
                  bearer |-> None, csrf |-> "none", content_length |-> None,
                  host |-> "10.0.0.1"],
     status |-> 0, headers |-> {}, by |-> "none"]

MWIdle ==
    /\ mw_app = [api_key |-> None, enable_csrf |-> FALSE, requests_per_minute |-> 1]
    /\ mw_limiters = NoTable
    /\ mw_now = 0
    /\ mw_out = NoExchange

(***************************************************************************)
(* A specification runs one subsystem and keeps the others at rest.        *)
(***************************************************************************)
IdleBut(s) ==
    /\ IF s = "cb" THEN TRUE ELSE CBIdle
    /\ IF s = "rt" THEN TRUE ELSE RTIdle
    /\ IF s = "tb" THEN TRUE ELSE TBIdle
    /\ IF s = "mg" THEN TRUE ELSE MGIdle
    /\ IF s = "cx" THEN TRUE ELSE CXIdle
    /\ IF s = "ch" THEN TRUE ELSE CHIdle
    /\ IF s = "ak" THEN TRUE ELSE AKIdle
    /\ IF s = "ws" THEN TRUE ELSE WSIdle
    /\ IF s = "mc" THEN TRUE ELSE MCIdle
    /\ IF s = "wm" THEN TRUE ELSE WMIdle
    /\ IF s = "ro" THEN TRUE ELSE ROIdle
    /\ IF s = "ra" THEN TRUE ELSE RAIdle
    /\ IF s = "cu" THEN TRUE ELSE CUIdle
    /\ IF s = "sx" THEN TRUE ELSE SXIdle
    /\ IF s = "px" THEN TRUE ELSE PXIdle
    /\ IF s = "mw" THEN TRUE ELSE MWIdle

Frame(s) ==
    /\ IF s = "cb" THEN TRUE ELSE UNCHANGED cbVars
    /\ IF s = "rt" THEN TRUE ELSE UNCHANGED rtVars
    /\ IF s = "tb" THEN TRUE ELSE UNCHANGED tbVars
    /\ IF s = "mg" THEN TRUE ELSE UNCHANGED mgVars
    /\ IF s = "cx" THEN TRUE ELSE UNCHANGED cxVars
    /\ IF s = "ch" THEN TRUE ELSE UNCHANGED chVars
    /\ IF s = "ak" THEN TRUE ELSE UNCHANGED akVars
    /\ IF s = "ws" THEN TRUE ELSE UNCHANGED wsVars
    /\ IF s = "mc" THEN TRUE ELSE UNCHANGED mcVars
    /\ IF s = "wm" THEN TRUE ELSE UNCHANGED wmVars
    /\ IF s = "ro" THEN TRUE ELSE UNCHANGED roVars
    /\ IF s = "ra" THEN TRUE ELSE UNCHANGED raVars
    /\ IF s = "cu" THEN TRUE ELSE UNCHANGED cuVars
    /\ IF s = "sx" THEN TRUE ELSE UNCHANGED sxVars
    /\ IF s = "px" THEN TRUE ELSE UNCHANGED pxVars
    /\ IF s = "mw" THEN TRUE ELSE UNCHANGED mwVars

(***************************************************************************)
(* CircuitBreaker: calls, overlapping, under a clock                       *)
(***************************************************************************)
CBInit ==
    /\ \E ft \in 1..MaxThreshold, st \in 1..MaxThreshold, to \in 1..MaxTimeout :
          breaker = CircuitBreaker(ft, st, to)
    /\ cb_now = 1
    /\ cb_inflight = 0
    /\ cb_event = "init"
    /\ cb_closedRun = 0
    /\ cb_openedAt = None
    /\ cb_probeFailedAt = None
    /\ cb_probeSuccesses = 0
    /\ cb_old = 0
    /\ cb_late = FALSE

\* time passes
CBTick ==
    /\ cb_now < MaxTime
    /\ cb_now' = cb_now + 1
    /\ cb_event' = "tick"
    /\ UNCHANGED <<breaker, cb_inflight, cb_closedRun>>
    /\ UNCHANGED <<cb_openedAt, cb_probeFailedAt, cb_probeSuccesses, cb_old, cb_late>>
    /\ Frame("cb")

\* CircuitBreaker.call up to its await: _check_state, then fail fast or invoke
CBCall ==
    LET b == check_state(breaker, cb_now) IN
    /\ breaker' = b
    /\ IF b.state = OPEN
       THEN /\ cb_event' = "circuit_open"
            /\ UNCHANGED cb_inflight
       ELSE /\ cb_inflight < MaxInflight
            /\ cb_inflight' = cb_inflight + 1
            /\ cb_event' = "invoked"
    /\ cb_probeSuccesses' = IF breaker.state = OPEN /\ b.state = HALF_OPEN
                             THEN 0 ELSE cb_probeSuccesses
    /\ UNCHANGED <<cb_now, cb_closedRun, cb_openedAt, cb_probeFailedAt, cb_old, cb_late>>
    /\ Frame("cb")

\* the operation whose outcome arrives is one invoked before the breaker
\* last opened (late) or one invoked since
Outcome(late) ==
    /\ IF late THEN cb_old > 0 ELSE cb_inflight > cb_old
    /\ cb_late' = late

\* the awaited operation returns: _on_success
CBReturn ==
    /\ cb_inflight > 0
    /\ \E late \in BOOLEAN :
        /\ Outcome(late)
        /\ cb_old' = IF late THEN cb_old - 1 ELSE cb_old
    /\ cb_inflight' = cb_inflight - 1
    /\ breaker' = on_success(breaker)
    /\ cb_closedRun' = 0
    /\ cb_event' = "success"
    /\ cb_probeSuccesses' = IF breaker.state = HALF_OPEN
                             THEN cb_probeSuccesses + 1 ELSE cb_probeSuccesses
    /\ UNCHANGED <<cb_now, cb_openedAt, cb_probeFailedAt>>
    /\ Frame("cb")

\* the awaited operation raises: _on_failure, and the error is re-raised
CBRaise ==
    /\ cb_inflight > 0
    /\ cb_inflight' = cb_inflight - 1
    /\ breaker' = on_failure(breaker, cb_now)
    /\ \E late \in BOOLEAN :
        /\ Outcome(late)
        /\ cb_old' = IF breaker.state # OPEN /\ breaker'.state = OPEN
                     THEN cb_inflight - 1
                     ELSE IF late THEN cb_old - 1 ELSE cb_old
    /\ cb_closedRun' = IF breaker.state = CLOSED THEN cb_closedRun + 1 ELSE 0
    /\ cb_event' = "failure"
    /\ cb_openedAt' = IF breaker.state # OPEN /\ breaker'.state = OPEN
                       THEN Some(cb_now) ELSE cb_openedAt
    /\ cb_probeFailedAt' = IF breaker.state = HALF_OPEN
                            THEN Some(cb_now) ELSE cb_probeFailedAt
    /\ UNCHANGED <<cb_now, cb_probeSuccesses>>
    /\ Frame("cb")

CBNext == CBTick \/ CBCall \/ CBReturn \/ CBRaise

CBSpecInit == CBInit /\ IdleBut("cb")

CBSpec == CBSpecInit /\ [][CBNext]_vars

\* C1: once failure_threshold consecutive failing calls have been recorded
\* while CLOSED the breaker is OPEN, and a call() made while it is OPEN and
\* fewer than timeout seconds have passed since the last recorded failure
\* fails fast with the circuit-open error, invokes nothing and leaves the
\* breaker OPEN.
C1_OpensAndFailsFast ==
    [][ /\ (/\ cb_event' = "failure"
            /\ cb_closedRun' >= breaker.failure_threshold)
           => breaker'.state = OPEN
        /\ (/\ cb_event' \in {"circuit_open", "invoked"}
            /\ breaker.state = OPEN
            /\ cb_now - breaker.last_failure_time[1] < breaker.timeout)
           => (/\ cb_event' = "circuit_open"
               /\ cb_inflight' = cb_inflight
               /\ breaker'.state = OPEN) ]_vars

\* a breaker with threshold 2 has opened and has refused a call
C1_Witness ==
    /\ breaker.failure_threshold = 2
    /\ breaker.state = OPEN
    /\ cb_event = "circuit_open"
    /\ cb_closedRun = 2

\* C21: a failing call recorded in HALF_OPEN moves the breaker to OPEN and
\* re-arms the timeout: the failure time becomes the last failure time, and
\* the wrapped operation is not invoked again until timeout seconds after
\* that failure.
C21_HalfOpenFailureReopens ==
    [][ /\ (cb_event' = "failure" /\ breaker.state = HALF_OPEN)
           => (/\ breaker'.state = OPEN
               /\ breaker'.last_failure_time = Some(cb_now))
        /\ (cb_event' = "invoked" /\ cb_inflight' > cb_inflight
                /\ cb_probeFailedAt # None)
           => cb_now >= cb_probeFailedAt[1] + breaker.timeout ]_vars

\* a HALF_OPEN call has failed, the breaker is OPEN with the timeout not yet
\* elapsed since then, and a call has just been refused
C21_Witness ==
    /\ cb_probeFailedAt # None
    /\ breaker.state = OPEN
    /\ breaker.timeout = 2
    /\ cb_now = cb_probeFailedAt[1] + 1
    /\ cb_event = "circuit_open"

\* a call was invoked after a HALF_OPEN failure, once the timeout had elapsed
C21_WitnessReadmitted ==
    /\ cb_probeFailedAt # None
    /\ cb_event = "invoked"
    /\ cb_now >= cb_probeFailedAt[1] + breaker.timeout

\* a call() arrives while the breaker is OPEN
Arrives == cb_event' \in {"circuit_open", "invoked"} /\ breaker.state = OPEN

\* the breaker leaves HALF_OPEN for CLOSED exactly at the success that makes
\* success_threshold successes recorded in HALF_OPEN
ClosesAtThreshold ==
    breaker.state = HALF_OPEN
    => (breaker'.state = CLOSED
        <=> (/\ cb_event' = "success"
             /\ cb_probeSuccesses' = breaker.success_threshold))

\* C22: a call that arrives at least timeout seconds after the breaker
\* opened moves it to HALF_OPEN with the success counter at 0 and is
\* admitted; the breaker then returns to CLOSED exactly when
\* success_threshold successes have been recorded in HALF_OPEN.
C22_Recovery ==
    [][ /\ (Arrives /\ cb_now - cb_openedAt[1] >= breaker.timeout)
           => (/\ breaker'.state = HALF_OPEN
               /\ breaker'.successes = 0
               /\ cb_event' = "invoked")
        /\ ClosesAtThreshold ]_vars

\* C22 with the timeout counted from the last recorded failure, as
\* _check_state counts it
C22_SinceLastFailure ==
    [][ /\ (Arrives /\ cb_now - breaker.last_failure_time[1] >= breaker.timeout)
           => (/\ breaker'.state = HALF_OPEN
               /\ breaker'.successes = 0
               /\ cb_event' = "invoked")
        /\ ClosesAtThreshold ]_vars

\* the breaker has closed again after two successes recorded in HALF_OPEN
C22_WitnessClosed ==
    /\ breaker.success_threshold = 2
    /\ breaker.state = CLOSED
    /\ cb_openedAt # None
    /\ cb_probeSuccesses = 2
    /\ cb_event = "success"

(***************************************************************************)
(* retry(policy)(func): the wrapper                                        *)
(***************************************************************************)
RTInit ==
    /\ \E ma \in 0..MaxAttempts : policy = RetryPolicy(ma)
    /\ rt_op \in [1..(MaxAttempts + 1) -> OpOutcomes]
    /\ rt_pc = "loop"
    /\ rt_attempt = 0
    /\ rt_last_error = None
    /\ rt_calls = 0
    /\ rt_outcome = None
    /\ rt_slept = <<>>

\* the loop test of the wrapper
loop_continues(p, attempt) == attempt < p.max_attempts

\* one pass of the while loop up to its suspension: await func(), and on an
\* exception the bookkeeping, should_retry and the start of the sleep
RTAttempt ==
    /\ rt_pc = "loop"
    /\ loop_continues(policy, rt_attempt)
    /\ rt_calls' = rt_calls + 1
    /\ LET r == rt_op[rt_calls + 1] IN
       IF r = Ok
       THEN /\ rt_outcome' = <<"return", rt_calls + 1>>
            /\ rt_pc' = "done"
            /\ UNCHANGED <<rt_attempt, rt_last_error, rt_slept>>
       ELSE /\ rt_last_error' = Some(r)
            /\ rt_attempt' = rt_attempt + 1
            /\ IF ~should_retry(policy, rt_attempt + 1, r)
               THEN /\ rt_outcome' = <<"raise", r>>
                    /\ rt_pc' = "done"
                    /\ UNCHANGED rt_slept
               ELSE /\ \E jitter_factor \in jitter_factors :
                         rt_slept' = Append(rt_slept,
                                            delay(policy, rt_attempt + 1, jitter_factor))
                    /\ rt_pc' = "sleep"
                    /\ UNCHANGED rt_outcome
    /\ UNCHANGED <<policy, rt_op>>
    /\ Frame("rt")

\* asyncio.sleep(delay) is over
RTWake ==
    /\ rt_pc = "sleep"
    /\ rt_pc' = "loop"
    /\ UNCHANGED <<policy, rt_op, rt_attempt, rt_last_error, rt_calls, rt_outcome, rt_slept>>
    /\ Frame("rt")

\* the loop is left: raise last_error (raising None is a TypeError)
RTExhausted ==
    /\ rt_pc = "loop"
    /\ ~loop_continues(policy, rt_attempt)
    /\ rt_outcome' = IF rt_last_error = None THEN <<"raise", TypeError>>
                     ELSE <<"raise", rt_last_error[1]>>
    /\ rt_pc' = "done"
    /\ UNCHANGED <<policy, rt_op, rt_attempt, rt_last_error, rt_calls, rt_slept>>
    /\ Frame("rt")

RTNext == RTAttempt \/ RTWake \/ RTExhausted

RTSpecInit == RTInit /\ IdleBut("rt")

RTSpec == RTSpecInit /\ [][RTNext]_vars

\* the same wrapper under policies that differ in their delays
DelayPolicies ==
    {RetryPolicyOf(ma, initial, maxd, base, jitter) :
        ma \in {0, MaxAttempts}, initial \in {1000, 2000}, maxd \in {3000, 60000}, base \in {1, 2, 3},
        jitter \in BOOLEAN}

RDInit ==
    /\ policy \in DelayPolicies
    /\ rt_op \in [1..(MaxAttempts + 1) -> {Ok, ConnectionError}]
    /\ rt_pc = "loop"
    /\ rt_attempt = 0
    /\ rt_last_error = None
    /\ rt_calls = 0
    /\ rt_outcome = None
    /\ rt_slept = <<>>

RDSpecInit == RDInit /\ IdleBut("rt")

RDSpec == RDSpecInit /\ [][RTNext]_vars

\* C2: for every policy, an operation that raises an error whose class is not
\* retryable is invoked exactly once and that same error reaches the caller.
C2_NonRetryableOnce ==
    (/\ rt_op[1] # Ok
     /\ ~is_retryable(rt_op[1]))
    => /\ rt_calls <= 1
       /\ rt_pc = "done" => (rt_calls = 1 /\ rt_outcome = <<"raise", rt_op[1]>>)

\* the first invocation at which the operation returns, 0 when there is none
FirstOk(op, n) ==
    IF \E k \in 1..n : op[k] = Ok
    THEN CHOOSE k \in 1..n : op[k] = Ok /\ \A j \in 1..(k - 1) : op[j] # Ok
    ELSE 0

\* C3: with max_attempts >= 1 and an operation whose failures are all
\* retryable, the operation is invoked at most max_attempts times; the wrapper
\* returns the result of the first successful invocation and invokes nothing
\* after it; when all max_attempts invocations fail, the error of the last
\* one is raised.
C3_RetryBounded ==
    (/\ policy.max_attempts >= 1
     /\ \A k \in DOMAIN rt_op : rt_op[k] # Ok => is_retryable(rt_op[k]))
    => LET ok == FirstOk(rt_op, policy.max_attempts) IN
       /\ rt_calls <= policy.max_attempts
       /\ ok # 0 => rt_calls <= ok
       /\ rt_pc = "done" =>
            IF ok # 0
            THEN rt_calls = ok /\ rt_outcome = <<"return", ok>>
            ELSE /\ rt_calls = policy.max_attempts
                 /\ rt_outcome = <<"raise", rt_op[policy.max_attempts]>>

\* two retryable failures, then the third invocation returns
C3_Witness ==
    /\ policy.max_attempts = 3
    /\ rt_op[1] = ConnectionError /\ rt_op[2] = ReadTimeoutError /\ rt_op[3] = Ok
    /\ rt_pc = "done"
    /\ rt_calls = 3
    /\ rt_outcome = <<"return", 3>>

\* every attempt failed with a retryable error: the last error is raised
C3_WitnessExhausted ==
    /\ policy.max_attempts = 2
    /\ rt_op[1] = ConnectionError /\ rt_op[2] = HTTPError
    /\ rt_pc = "done"
    /\ rt_outcome = <<"raise", HTTPError>>

(***************************************************************************)
(* TokenBucket / RateLimiter: try_acquire(1) calls under a clock           *)
(***************************************************************************)
TBInit ==
    /\ tb_now = 1
    /\ \E cap \in 1..MaxCapacity, num \in 1..MaxRateNum, den \in 1..MaxRateDen :
          bucket = TokenBucket(cap, num, den, 1)
    /\ tb_calls = <<>>
    /\ tb_acquire = NoAcquire
    /\ tb_last = NoBucketCall
    /\ tb_ops = 0

TBSpecInit == TBInit /\ IdleBut("tb")

\* time passes
TBTick ==
    /\ tb_now < TBMaxTime
    /\ tb_now' = tb_now + 1
    /\ UNCHANGED <<bucket, tb_calls, tb_acquire, tb_last, tb_ops>>
    /\ Frame("tb")

\* RateLimiter.try_acquire(1) / RateLimiter.allow()
TBTryAcquire ==
    /\ Len(tb_calls) < MaxCalls
    /\ LET r == try_acquire(bucket, tb_now, 1) IN
       /\ bucket' = r[1]
       /\ tb_calls' = Append(tb_calls, [t |-> tb_now, ok |-> r[2], left |-> r[1].tokens])
    /\ UNCHANGED <<tb_now, tb_acquire, tb_last, tb_ops>>
    /\ Frame("tb")

TBNext == TBTick \/ TBTryAcquire

TBSpec == TBSpecInit /\ [][TBNext]_vars

\* C4: starting full, in a burst with no time elapsing the first `capacity`
\* try_acquire(1) calls return true and the next one returns false; and once
\* 1/refill_rate seconds have elapsed since a successful call left less than
\* one token, the next call after only failed ones returns true.
C4_BurstThenRefill ==
    /\ \A i \in 1..Len(tb_calls) :
          tb_calls[i].t = 1 => (tb_calls[i].ok <=> i <= bucket.capacity)
    /\ \A i \in 1..Len(tb_calls) : \A k \in (i + 1)..Len(tb_calls) :
          (/\ tb_calls[i].ok
           /\ tb_calls[i].left < Unit(bucket)
           /\ \A j \in (i + 1)..(k - 1) : ~tb_calls[j].ok
           /\ (tb_calls[k].t - tb_calls[i].t) * bucket.refill_rate[1] >= bucket.refill_rate[2])
          => tb_calls[k].ok

\* capacity 2 at 1/3 token per tick: two calls pass, the third and a fourth
\* made too early fail, and a call 3 ticks after the exhaustion passes
C4_Witness ==
    /\ bucket.capacity = 2 /\ bucket.refill_rate = <<1, 3>>
    /\ Len(tb_calls) = 4
    /\ tb_calls[1].ok /\ tb_calls[2].ok /\ ~tb_calls[3].ok /\ tb_calls[4].ok
    /\ tb_calls[1].t = 1 /\ tb_calls[2].t = 1 /\ tb_calls[3].t = 1 /\ tb_calls[4].t = 4

(***************************************************************************)
(* SQLiteMigrationRunner: migrate_up / migrate_down calls, one at a time,  *)
(* on a database that starts empty; any SQL statement of a migration may   *)
(* fail.                                                                   *)
(***************************************************************************)
MGInit ==
    /\ mg_migrations \in MigrationLists
    /\ mg_rows = {}
    /\ mg_schema = {}
    /\ mg_pc = "idle"
    /\ mg_local = NoLocals
    /\ mg_result = "none"
    /\ mg_calls = <<>>

MGSpecInit == MGInit /\ IdleBut("mg")

\* migrate_up(target_version) up to its for loop
MGUpStart ==
    /\ mg_pc = "idle"
    /\ Len(mg_calls) < MGMaxCalls
    /\ \E target_version \in {None} \cup {Some(t) : t \in 0..MaxVersion} :
          mg_local' = [NoLocals EXCEPT
                          !.current_version = get_current_version(mg_rows),
                          !.applied = mg_rows,
                          !.target = up_target(target_version, mg_migrations),
                          !.todo = mg_migrations,
                          !.target_version = target_version,
                          !.before = mg_rows]
    /\ mg_pc' = "up"
    /\ mg_result' = "running"
    /\ UNCHANGED <<mg_migrations, mg_rows, mg_schema, mg_calls>>
    /\ Frame("mg")

\* the call returns or raises
Return(op, result) ==
    /\ mg_pc' = "idle"
    /\ mg_result' = result
    /\ mg_local' = NoLocals
    /\ mg_calls' = Completed(mg_calls, op, mg_local, result, mg_rows', mg_schema')

\* one pass of migrate_up's for loop (or its end)
MGUpStep ==
    /\ mg_pc = "up"
    /\ UNCHANGED mg_migrations
    /\ Frame("mg")
    /\ IF mg_local.todo = <<>>
       THEN /\ UNCHANGED <<mg_rows, mg_schema>>
            /\ Return("up", "ok")
       ELSE LET version == Head(mg_local.todo)
                rest == [mg_local EXCEPT !.todo = Tail(@)]
            IN
            IF version > mg_local.target \/ version \in mg_local.applied
            THEN /\ mg_local' = rest
                 /\ UNCHANGED <<mg_rows, mg_schema, mg_pc, mg_result, mg_calls>>
            ELSE IF gap_detected(mg_local.current_version, version)
            THEN /\ UNCHANGED <<mg_rows, mg_schema>>
                 /\ Return("up", "gap_error")
            ELSE \/ \* up_sql fails: rollback, raise
                    /\ UNCHANGED <<mg_rows, mg_schema>>
                    /\ Return("up", "sql_error")
                 \/ \* up_sql runs and execute_migration commits it; the INSERT
                    \* fails on the primary key: rollback, raise
                    /\ version \in mg_rows
                    /\ mg_schema' = mg_schema \cup {version}
                    /\ UNCHANGED mg_rows
                    /\ Return("up", "sql_error")
                 \/ \* up_sql and the INSERT run: commit
                    /\ version \notin mg_rows
                    /\ mg_schema' = mg_schema \cup {version}
                    /\ mg_rows' = mg_rows \cup {version}
                    /\ mg_local' = [rest EXCEPT !.current_version = Some(version),
                                                !.done = Append(@, version)]
                    /\ UNCHANGED <<mg_pc, mg_result, mg_calls>>

\* migrate_down(target_version) up to its for loop
MGDownStart ==
    /\ mg_pc = "idle"
    /\ Len(mg_calls) < MGMaxCalls
    /\ \E target_version \in 0..MaxVersion :
         LET current_version == get_current_version(mg_rows) IN
         IF current_version = None
         THEN /\ mg_result' = "nothing_to_rollback"
              /\ mg_calls' = Completed(mg_calls, "down",
                                 [NoLocals EXCEPT !.target_version = Some(target_version)],
                                 "nothing_to_rollback", mg_rows, mg_schema)
              /\ UNCHANGED <<mg_pc, mg_local>>
         ELSE /\ mg_local' = [NoLocals EXCEPT
                     !.current_version = current_version,
                     !.target = target_version,
                     !.todo = migrations_to_rollback(mg_migrations, target_version,
                                                     current_version[1]),
                     !.target_version = Some(target_version),
                     !.before = mg_rows]
              /\ mg_pc' = "down"
              /\ mg_result' = "running"
              /\ UNCHANGED mg_calls
    /\ UNCHANGED <<mg_migrations, mg_rows, mg_schema>>
    /\ Frame("mg")

\* one pass of migrate_down's for loop (or its end)
MGDownStep ==
    /\ mg_pc = "down"
    /\ UNCHANGED mg_migrations
    /\ Frame("mg")
    /\ IF mg_local.todo = <<>>
       THEN /\ UNCHANGED <<mg_rows, mg_schema>>
            /\ Return("down", "ok")
       ELSE LET version == Head(mg_local.todo) IN
            \/ \* down_sql fails: rollback, raise
               /\ UNCHANGED <<mg_rows, mg_schema>>
               /\ Return("down", "sql_error")
            \/ \* down_sql and the DELETE run: commit
               /\ mg_schema' = mg_schema \ {version}
               /\ mg_rows' = mg_rows \ {version}
               /\ mg_local' = [mg_local EXCEPT !.todo = Tail(@),
                                               !.done = Append(@, version)]
               /\ UNCHANGED <<mg_pc, mg_result, mg_calls>>

MGNext == MGUpStart \/ MGUpStep \/ MGDownStart \/ MGDownStep

MGSpec == MGSpecInit /\ [][MGNext]_vars

\* C5: after any sequence of migrate_up / migrate_down calls on an initially
\* empty database, whatever migrations are registered, the version rows are
\* exactly {1..k} for some k >= 0.
C5_RowsDense == \E k \in 0..MaxVersion : mg_rows = 1..k

\* the registered versions are 1..n, each once
Dense(migrations) == migrations = [i \in 1..Len(migrations) |-> i]

\* a completed call that returned
IsCall(call, op, target_version) ==
    /\ call.op = op
    /\ call.target_version = Some(target_version)
    /\ call.result = "ok"

UpDownUp(n, m) ==
    /\ Dense(mg_migrations)
    /\ m < n
    /\ n <= Len(mg_migrations)
    /\ Len(mg_calls) = 3
    /\ IsCall(mg_calls[1], "up", n)
    /\ IsCall(mg_calls[2], "down", m)
    /\ IsCall(mg_calls[3], "up", n)

CurrentVersion(rows) == IF rows = {} THEN 0 ELSE SetMax(rows)

\* C19: migrate_up applies version V only when the current version is V - 1,
\* an empty schema_migrations table counting as version 0.
C19_AppliesOnlyNext ==
    [][(mg_pc = "up" /\ mg_rows' # mg_rows) =>
        \A version \in mg_rows' \ mg_rows : CurrentVersion(mg_rows) = version - 1]_vars

\* the versions of a set in ascending and in descending order
Ascending(S) ==
    CHOOSE q \in [1..Cardinality(S) -> S] :
        \A i, j \in 1..Cardinality(S) : i < j => q[i] < q[j]

Descending(S) == Reverse(Ascending(S))

TargetReached(call) ==
    LET t == call.target_version[1]
        registered == {mg_migrations[i] : i \in 1..Len(mg_migrations)}
    IN /\ call.op = "up" =>
            call.done = Ascending({v \in registered : v <= t /\ v \notin call.before})
       /\ call.op = "down" =>
            call.done = Descending({v \in call.before : v > t})
       /\ call.done # <<>> => CurrentVersion(call.rows) = t

\* C20: with versions 1..newest registered and 0 <= t <= newest, a
\* migrate_up(t) that returns has applied exactly the unapplied versions
\* <= t in ascending order, a migrate_down(t) that returns has reverted
\* exactly the applied versions > t in descending order, and a call that
\* did anything leaves the current version at t.
C20_ExactlyToTarget ==
    \A i \in DOMAIN mg_calls :
        (/\ Dense(mg_migrations)
         /\ mg_calls[i].result = "ok"
         /\ mg_calls[i].target_version # None
         /\ mg_calls[i].target_version[1] <= Len(mg_migrations))
        => TargetReached(mg_calls[i])

\* C20 for every call but migrate_up(0)
C20_ButUpZero ==
    \A i \in DOMAIN mg_calls :
        (/\ Dense(mg_migrations)
         /\ mg_calls[i].result = "ok"
         /\ mg_calls[i].target_version # None
         /\ mg_calls[i].target_version[1] <= Len(mg_migrations)
         /\ ~IsCall(mg_calls[i], "up", 0))
        => TargetReached(mg_calls[i])

(***************************************************************************)
(* ContextManager: save_context and get_context on one database            *)
(***************************************************************************)
CXInit == CXIdle

\* await context_mgr.save_context(C)
CXSave ==
    /\ \E C \in CXContexts :
        /\ cx_contexts' = save_context(cx_contexts, C)
        /\ cx_saved' = [cx_saved EXCEPT ![C.conversation_id] =
                            [context |-> Some(C), saves |-> Min(@.saves + 1, MaxSaves)]]
    /\ cx_got' = None
    /\ Frame("cx")

\* await context_mgr.get_context(conversation_id)
CXGet ==
    /\ \E c \in CXIds :
        cx_got' = [conversation_id |-> c, result |-> get_context(cx_contexts, c)]
    /\ UNCHANGED <<cx_contexts, cx_saved>>
    /\ Frame("cx")

CXNext == CXSave \/ CXGet

CXSpecInit == CXInit /\ IdleBut("cx")

CXSpec == CXSpecInit /\ [][CXNext]_vars

\* C10: get_context(id) returns, field by field, the context of the latest
\* save_context for that id (saves of other ids in between change nothing),
\* and nothing of an earlier snapshot of that id survives a later save.
C10_SaveGetRoundTrip ==
    [][(cx_got' # None /\ cx_got' # cx_got) =>
        LET saved == cx_saved[cx_got'.conversation_id].context
            got == cx_got'.result
        IN IF saved = None THEN got = None
           ELSE /\ got # None
                /\ got[1].conversation_id = saved[1].conversation_id
                /\ got[1].project_id = saved[1].project_id
                /\ got[1].messages = saved[1].messages
                /\ got[1].codebase_context = saved[1].codebase_context
                /\ got[1].tool_history = saved[1].tool_history]_vars

\* a context with messages, tool history and project id was read back after
\* it replaced an earlier snapshot of its id
C10_Witness ==
    /\ cx_got # None
    /\ cx_got.result # None
    /\ cx_saved[cx_got.conversation_id].saves >= 2
    /\ cx_got.result = cx_saved[cx_got.conversation_id].context
    /\ Len(cx_got.result[1].messages) = MaxMessages
    /\ Len(cx_got.result[1].tool_history) = MaxToolCalls
    /\ cx_got.result[1].project_id # None
    /\ cx_got.result[1].codebase_context # None

(***************************************************************************)
(* POST /chat: requests handled concurrently on one database               *)
(***************************************************************************)
CHInit ==
    /\ ch_config \in [adapters : SUBSET AdapterNames, routing : Routings]
    /\ ch_contexts = NoTable
    /\ ch_messages = <<>>
    /\ ch_req = [r \in Slots |-> IdleRequest]
    /\ ch_started = 0
    /\ ch_now = 1
    /\ ch_streak = [a \in AdapterNames |-> 0]
    /\ ch_tasks = {}
    /\ ch_logged = {}
    /\ ch_audit_logs = {}
    /\ ch_cost_records = {}

\* routes.py 126-157: adapters, routing decision, tool selection.  The request
\* takes the lowest free slot.  `before` remembers the two tables for a request
\* that no other request overlaps.
ChatStart ==
    /\ ch_started < MaxRequests
    /\ \E r \in Slots, message \in ChatMessages, tool \in ChatTools,
          project_id \in ChatProjects,
          conversation_id \in {None} \cup {Some(c) : c \in {"c1"} \cup DOMAIN ch_contexts} :
        LET adapters == get_adapters(ch_config)
            routing_decision == route(get_router(ch_config), message, tool)
            selected_tool_name == select_tool(tool, routing_decision, adapters)
            others == {s \in Slots \ {r} : InFlight(ch_req[s])}
            q == [IdleRequest EXCEPT !.seq = ch_started + 1, !.message = message,
                     !.conversation_id = conversation_id,
                     !.project_id = project_id, !.tool = tool]
        IN /\ ~InFlight(ch_req[r])
           /\ \A s \in Slots : s < r => InFlight(ch_req[s])
           /\ IF adapters = {}
              THEN ch_req' = [ch_req EXCEPT ![r] = Respond(q, 500)]
              ELSE IF selected_tool_name = None \/ selected_tool_name[1] \notin adapters
              THEN ch_req' = [ch_req EXCEPT ![r] = Respond(q, 400)]
              ELSE ch_req' =
                     [s \in Slots |->
                        IF s = r
                        THEN [q EXCEPT !.pc = "get_or_create_context",
                                 !.selected = selected_tool_name,
                                 !.streak = ch_streak[selected_tool_name[1]],
                                 !.before =
                                    IF others = {}
                                    THEN Some([contexts |-> ch_contexts,
                                               messages |-> ch_messages])
                                    ELSE None]
                        ELSE IF s \in others THEN [ch_req[s] EXCEPT !.before = None]
                        ELSE ch_req[s]]
    /\ ch_started' = ch_started + 1
    /\ UNCHANGED <<ch_config, ch_contexts, ch_messages, ch_now, ch_streak>>
    /\ UNCHANGED <<ch_tasks, ch_logged, ch_audit_logs, ch_cost_records>>
    /\ Frame("ch")

\* context_manager.py 116-121: load the context of a given conversation id
ChatGetContext ==
    /\ \E r \in Slots :
        LET q == ch_req[r]
            context == get_context(ch_contexts, q.conversation_id[1])
        IN /\ q.pc = "get_or_create_context"
           /\ IF ~Truthy(q.conversation_id)
              THEN ch_req' = [ch_req EXCEPT ![r].pc = "create_context"]
              ELSE \/ ch_req' = [ch_req EXCEPT ![r] =
                        IF context # None
                        THEN [q EXCEPT !.pc = "call_tool", !.context = context,
                                 !.loaded = context]
                        ELSE [q EXCEPT !.pc = "create_context"]]
                   \/ ch_req' = [ch_req EXCEPT ![r] = Respond(q, 500)]
    /\ UNCHANGED <<ch_config, ch_contexts, ch_messages, ch_started, ch_now, ch_streak>>
    /\ UNCHANGED <<ch_tasks, ch_logged, ch_audit_logs, ch_cost_records>>
    /\ Frame("ch")

\* context_manager.py 123-134: build an empty context and save it
ChatCreateContext ==
    /\ \E r \in Slots :
        LET q == ch_req[r]
            conversation_id == IF Truthy(q.conversation_id)
                               THEN q.conversation_id[1] ELSE uuid4(q.seq)
            context == Context(conversation_id, q.project_id, <<>>, None, <<>>)
        IN /\ q.pc = "create_context"
           /\ \/ /\ ch_contexts' = save_context(ch_contexts, context)
                 /\ ch_req' = [ch_req EXCEPT ![r] =
                        [q EXCEPT !.pc = "call_tool", !.context = Some(context),
                            !.loaded = Some(context), !.created = TRUE]]
              \/ /\ ch_req' = [ch_req EXCEPT ![r] = Respond(q, 500)]
                 /\ UNCHANGED ch_contexts
    /\ UNCHANGED <<ch_config, ch_messages, ch_started, ch_now, ch_streak>>
    /\ UNCHANGED <<ch_tasks, ch_logged, ch_audit_logs, ch_cost_records>>
    /\ Frame("ch")

\* routes.py 181-214 with retry.py 66-86: one invocation of the selected
\* adapter by the retry wrapper; the backoff sleep before the next
\* invocation changes nothing and is part of this step.  The adapters put a
\* "usage" entry in every response's metadata; when it is None, usage.get
\* raises and the request ends in the handler's except clause.
ChatCallTool ==
    /\ \E r \in Slots, outcome \in AdapterOutcomes :
        LET q == ch_req[r]
            tool == q.selected[1]
            called == [q EXCEPT !.invoked = @ \cup {tool}]
        IN /\ q.pc = "call_tool"
           /\ loop_continues(chat_retry_policy, q.attempt)
           /\ IF outcome[1] = "return"
              THEN /\ ch_req' = [ch_req EXCEPT ![r] =
                          IF outcome[2].usage
                          THEN [called EXCEPT !.pc = "add_user",
                                   !.response = Some(outcome[2].content),
                                   !.spawned = {"record_cost"}]
                          ELSE Respond(called, 500)]
                   /\ ch_streak' = [ch_streak EXCEPT ![tool] = 0]
                   /\ ch_tasks' = IF outcome[2].usage
                                  THEN ch_tasks \cup {create_task(q.seq, "record_cost")}
                                  ELSE ch_tasks
              ELSE IF should_retry(chat_retry_policy, q.attempt + 1, outcome[2])
              THEN /\ ch_req' = [ch_req EXCEPT ![r] =
                          [called EXCEPT !.attempt = q.attempt + 1]]
                   /\ UNCHANGED <<ch_streak, ch_tasks>>
              ELSE /\ ch_req' = [ch_req EXCEPT ![r] = Respond(called, 500)]
                   /\ ch_streak' = [ch_streak EXCEPT ![tool] = Min(@ + 1, MaxRequests)]
                   /\ UNCHANGED ch_tasks
    /\ UNCHANGED <<ch_config, ch_contexts, ch_messages, ch_started, ch_now>>
    /\ UNCHANGED <<ch_logged, ch_audit_logs, ch_cost_records>>
    /\ Frame("ch")

\* context_manager.py 161-175: append the message in memory and insert its row.
\* The clock is read here: time has passed, up to `timestamp`, since it was
\* last read.
ChatAddMessage ==
    /\ \E r \in Slots, timestamp \in ch_now..ChatMaxTime :
        LET q == ch_req[r]
            role == IF q.pc = "add_user" THEN "user" ELSE "assistant"
            content == IF q.pc = "add_user" THEN q.message ELSE q.response[1]
            context == add_message(q.context[1], role, content, timestamp)
            appended == [q EXCEPT !.context = Some(context)]
        IN /\ q.pc \in {"add_user", "add_assistant"}
           /\ ch_now' = timestamp
           /\ \/ /\ ch_messages' = sqlite_add_message(ch_messages,
                        context.conversation_id, role, content, timestamp)
                 /\ ch_req' = [ch_req EXCEPT ![r] =
                        [appended EXCEPT !.pc = IF q.pc = "add_user"
                                                THEN "save_user" ELSE "save_assistant"]]
              \/ /\ ch_req' = [ch_req EXCEPT ![r] = Respond(appended, 500)]
                 /\ UNCHANGED ch_messages
    /\ UNCHANGED <<ch_config, ch_contexts, ch_started, ch_streak>>
    /\ UNCHANGED <<ch_tasks, ch_logged, ch_audit_logs, ch_cost_records>>
    /\ Frame("ch")

\* context_manager.py 177 and 179-191, routes.py 227-245: save the snapshot
\* after each message, then once more with the tool call appended; after
\* that the audit task is spawned and the response returned.
ChatSaveContext ==
    /\ \E r \in Slots, timestamp \in ch_now..ChatMaxTime :
        LET q == ch_req[r]
            context == IF q.pc = "add_tool_call"
                       THEN add_tool_call(q.context[1], q.selected[1], timestamp,
                                          q.message, q.response[1])
                       ELSE q.context[1]
            kept == [q EXCEPT !.context = Some(context)]
        IN /\ q.pc \in {"save_user", "save_assistant", "add_tool_call"}
           /\ q.pc # "add_tool_call" => timestamp = ch_now
           /\ ch_now' = timestamp
           /\ \/ /\ ch_contexts' = save_context(ch_contexts, context)
                 /\ ch_req' = [ch_req EXCEPT ![r] =
                        CASE q.pc = "save_user" -> [kept EXCEPT !.pc = "add_assistant"]
                          [] q.pc = "save_assistant" -> [kept EXCEPT !.pc = "add_tool_call"]
                          [] OTHER -> [Respond(kept, 200) EXCEPT
                                          !.spawned = q.spawned \cup {"log_event"}]]
                 /\ ch_tasks' = IF q.pc = "add_tool_call"
                                THEN ch_tasks \cup {create_task(q.seq, "log_event")}
                                ELSE ch_tasks
              \/ /\ ch_req' = [ch_req EXCEPT ![r] = Respond(kept, 500)]
                 /\ UNCHANGED <<ch_contexts, ch_tasks>>
    /\ UNCHANGED <<ch_config, ch_messages, ch_started, ch_streak>>
    /\ UNCHANGED <<ch_logged, ch_audit_logs, ch_cost_records>>
    /\ Frame("ch")

ChatNext ==
    \/ ChatStart
    \/ ChatGetContext
    \/ ChatCreateContext
    \/ ChatCallTool
    \/ ChatAddMessage
    \/ ChatSaveContext

ChatSpecInit == CHInit /\ IdleBut("ch")

ChatSpec == ChatSpecInit /\ [][ChatNext]_vars

\* the task's step: `t` moves on to `at`
Advance(t, at) == (ch_tasks \ {t}) \cup {[t EXCEPT !.at = at]}

\* cost/tracker.py 50-71, the task spawned at routes.py 202: initialize the
\* storage and insert the row; an exception ends the task and is retrieved by
\* nobody
ChatRecordCost ==
    /\ \E t \in ch_tasks :
        /\ t.name = "record_cost"
        /\ t.at = "pending"
        /\ \/ /\ ch_cost_records' = ch_cost_records \cup {t.seq}
              /\ ch_tasks' = Advance(t, "returned")
           \/ /\ ch_tasks' = Advance(t, "raised")
              /\ UNCHANGED ch_cost_records
    /\ UNCHANGED <<ch_config, ch_contexts, ch_messages, ch_req, ch_started, ch_now,
                   ch_streak, ch_logged, ch_audit_logs>>
    /\ Frame("ch")

\* audit.py 57-77, the task spawned at routes.py 229: build event_data and
\* emit it on the logger "audit", up to the first await
ChatLogEventEmit ==
    /\ \E t \in ch_tasks :
        /\ t.name = "log_event"
        /\ t.at = "pending"
        /\ ch_logged' = ch_logged \cup {<<"audit", "INFO", t.seq>>}
        /\ ch_tasks' = Advance(t, "storage")
    /\ UNCHANGED <<ch_config, ch_contexts, ch_messages, ch_req, ch_started, ch_now,
                   ch_streak, ch_audit_logs, ch_cost_records>>
    /\ Frame("ch")

\* audit.py 75-90: initialize, log_audit_event, close; an Exception of any of
\* them is logged as an error and log_event returns
ChatLogEventStore ==
    /\ \E t \in ch_tasks :
        /\ t.name = "log_event"
        /\ t.at = "storage"
        /\ \/ /\ ch_audit_logs' = ch_audit_logs \cup {t.seq}
              /\ UNCHANGED ch_logged
           \/ /\ ch_logged' = ch_logged \cup {<<"unified_ai.security.audit", "ERROR", t.seq>>}
              /\ UNCHANGED ch_audit_logs
        /\ ch_tasks' = Advance(t, "returned")
    /\ UNCHANGED <<ch_config, ch_contexts, ch_messages, ch_req, ch_started, ch_now,
                   ch_streak, ch_cost_records>>
    /\ Frame("ch")

\* the chat handlers together with the tasks they leave on the event loop
ChatTaskNext ==
    \/ ChatNext
    \/ ChatRecordCost
    \/ ChatLogEventEmit
    \/ ChatLogEventStore

\* one adapter is configured: gpt, whose responses may carry no usage
ChatTaskInit == CHInit /\ get_adapters(ch_config) = {"gpt"}

ChatTaskSpecInit == ChatTaskInit /\ IdleBut("ch")

ChatTaskSpec == ChatTaskSpecInit /\ [][ChatTaskNext]_vars

\* the step in which request r's adapter call returns a response
AdapterReturns(r) ==
    /\ ch_req[r].pc = "call_tool"
    /\ ch_req'[r].pc # "call_tool"
    /\ ch_streak'[ch_req[r].selected[1]] = 0

\* a step of one of the tasks
TaskStep == \E t \in ch_tasks : t \notin ch_tasks'

\* once the adapter has returned, the handler goes on to the context writes
CostBlockPasses == \A r \in Slots : AdapterReturns(r) => ch_req'[r].pc = "add_user"

\* the last context write done, the response is the success response
WritesDoneIs200 ==
    \A r \in Slots :
        (/\ ch_req[r].pc = "add_tool_call"
         /\ ch_req'[r] # ch_req[r]
         /\ ch_contexts' # ch_contexts)
        => ch_req'[r].pc = "done" /\ ch_req'[r].status = 200

\* log_event has emitted on "audit" before anything else, and never raises
LogEventEmitsAndReturns ==
    \A t \in ch_tasks :
        t.name = "log_event" =>
            /\ t.at # "raised"
            /\ t.at # "pending" => <<"audit", "INFO", t.seq>> \in ch_logged

\* C31: a failure while recording cost or writing the audit event never
\* fails the chat request: after the adapter has returned, only a failing
\* context write keeps the request from its 200; no step of the record_cost
\* or log_event task changes a request or its response; log_event always
\* emits on the "audit" logger and returns, also when the database fails.
C31_CostAndAuditNeverFailRequest ==
    /\ [][CostBlockPasses /\ WritesDoneIs200]_vars
    /\ [][TaskStep => ch_req' = ch_req]_vars
    /\ []LogEventEmitsAndReturns

\* the parts of C31 that concern the two tasks and the audit logger
C31_TaskFailuresStayInTask ==
    [][WritesDoneIs200 /\ (TaskStep => ch_req' = ch_req)]_vars

C31_LogEventEmitsFirst == LogEventEmitsAndReturns

\* the part that concerns the cost block run by the handler itself
C31_CostBlockNeverRaises == [][CostBlockPasses]_vars

\* a request was answered 200 (its log_event task is spawned along with
\* that response), its record_cost task raised and its audit row was not
\* stored
C31_AnsweredDespiteFailedTasks ==
    ~ \E r \in Slots, seq \in 1..MaxRequests :
        /\ ch_req[r].pc = "done" /\ ch_req[r].status = 200
        /\ [seq |-> seq, name |-> "record_cost", at |-> "raised"] \in ch_tasks
        /\ [seq |-> seq, name |-> "log_event", at |-> "returned"] \in ch_tasks
        /\ seq \notin ch_audit_logs
        /\ <<"unified_ai.security.audit", "ERROR", seq>> \in ch_logged

FirstPresent(candidates, adapters) ==
    LET present == {i \in 1..Len(candidates) : candidates[i] \in adapters}
    IN IF present = {} THEN None
       ELSE Some(candidates[CHOOSE i \in present : \A j \in present : i <= j])

Candidates(q) == route(get_router(ch_config), q.message, q.tool)

\* C6: a request that ends with 200 leaves as its conversation's snapshot the
\* context it loaded with the user message and then the assistant reply
\* appended, and with one more tool-call record; if the request created the
\* conversation the snapshot's messages are exactly [user, assistant].
C6_SuccessAppendsExchange ==
    [][\A r \in Slots :
        (InFlight(ch_req[r]) /\ ch_req'[r].pc = "done" /\ ch_req'[r].status = 200) =>
            LET q == ch_req[r]
                old == q.loaded[1]
                n == Len(old.messages)
                k == Len(old.tool_history)
                snap == get_context(ch_contexts', old.conversation_id)
            IN /\ snap # None
               /\ Len(snap[1].messages) = n + 2
               /\ SubSeq(snap[1].messages, 1, n) = old.messages
               /\ snap[1].messages[n + 1].role = "user"
               /\ snap[1].messages[n + 1].content = q.message
               /\ snap[1].messages[n + 2].role = "assistant"
               /\ snap[1].messages[n + 2].content = q.response[1]
               /\ Len(snap[1].tool_history) = k + 1
               /\ SubSeq(snap[1].tool_history, 1, k) = old.tool_history
               /\ snap[1].tool_history[k + 1].tool = q.selected[1]
               /\ snap[1].tool_history[k + 1].request = q.message
               /\ snap[1].tool_history[k + 1].response = q.response[1]
               /\ q.created => n = 0 /\ k = 0]_vars

\* a second successful chat on a conversation: its snapshot holds two exchanges
C6_Witness ==
    \E r \in Slots :
        /\ ch_req[r].pc = "done"
        /\ ch_req[r].status = 200
        /\ LET snap == get_context(ch_contexts, ch_req[r].conversation_id[1])
           IN /\ snap # None
              /\ Len(snap[1].messages) = 4
              /\ Len(snap[1].tool_history) = 2

\* C7: a request that fails with 500 after its tool was selected, and that no
\* other request overlapped, leaves the tables contexts and messages as they
\* were when it arrived.
C7_FailureWritesNothing ==
    [][\A r \in Slots :
        (/\ InFlight(ch_req[r])
         /\ ch_req'[r].pc = "done"
         /\ ch_req'[r].status = 500
         /\ ch_req[r].before # None) =>
            /\ ch_contexts' = ch_req[r].before[1].contexts
            /\ ch_messages' = ch_req[r].before[1].messages]_vars

\* The selection rule of C8, with the status returned when the adapter map is
\* empty left open.
SelectionRule(empty_map_status) ==
    \A r \in Slots :
        /\ (~InFlight(ch_req[r]) /\ ch_req'[r] # ch_req[r]) =>
              LET q == ch_req'[r]
                  first == FirstPresent(Candidates(q), get_adapters(ch_config))
              IN IF first = None
                 THEN /\ q.pc = "done"
                      /\ q.status = IF get_adapters(ch_config) = {}
                                    THEN empty_map_status ELSE 400
                      /\ q.invoked = {}
                      /\ UNCHANGED <<ch_contexts, ch_messages>>
                 ELSE /\ InFlight(q)
                      /\ q.selected = first
                      /\ q.invoked = {}
        /\ (InFlight(ch_req[r]) /\ InFlight(ch_req'[r]) /\ ch_req'[r] # ch_req[r]) =>
              LET q == ch_req'[r]
                  first == FirstPresent(Candidates(q), get_adapters(ch_config))
              IN /\ first # None
                 /\ q.invoked \subseteq {first[1]}
                 /\ q.pc \notin {"get_or_create_context", "create_context", "call_tool"}
                       => q.invoked = {first[1]}

\* C8 as stated: a request with no candidate in the adapter map gets 400.
C8_NoCandidateIs400 == [][SelectionRule(400)]_vars

\* C8: a request invokes no adapter but the first candidate of its routing
\* decision that is in the live adapter map, and has invoked it once it
\* records the exchange; when no candidate is in the map it gets 400, or 500
\* when the map is empty, with no adapter invoked and no table written.
C8_FirstPresentCandidate == [][SelectionRule(500)]_vars

\* one request rejected with 400 by a non-empty adapter map while another has
\* invoked its second candidate, the first one being absent
C8_Witness ==
    \E r, s \in Slots :
        /\ get_adapters(ch_config) # {}
        /\ ch_req[s].pc = "done"
        /\ ch_req[s].status = 400
        /\ InFlight(ch_req[r])
        /\ ch_req[r].invoked = {ch_req[r].selected[1]}
        /\ Candidates(ch_req[r])[1] \notin get_adapters(ch_config)
        /\ ch_req[r].selected[1] = Candidates(ch_req[r])[2]

\* C9: for a breaker threshold n, a request that arrives when the last n
\* call_tool() runs of its adapter have all failed contacts no adapter.
C9_OpenBreakerFailsFast ==
    \A n \in 1..MaxThreshold, r \in Slots :
        (InFlight(ch_req[r]) /\ ch_req[r].streak >= n) => ch_req[r].invoked = {}

\* the rows of one conversation in table messages with a given role and content
MessageRows(rows, conversation_id, role, content) ==
    {i \in 1..Len(rows) : /\ rows[i].conversation_id = conversation_id
                          /\ rows[i].role = role
                          /\ rows[i].content = content}

\* C11: when a request ends with 200 on a conversation on which the request in
\* the other slot also ended with 200, table messages holds a user row and an
\* assistant row of that conversation for each of the two requests, and the
\* stored snapshot is the context the request finishing last saved: what it
\* loaded plus its own exchange.
C11_RowsKeptLastWriterWins ==
    [][\A r, s \in Slots :
        (/\ r # s
         /\ InFlight(ch_req[r])
         /\ ch_req'[r].pc = "done" /\ ch_req'[r].status = 200
         /\ ch_req[s].pc = "done" /\ ch_req[s].status = 200
         /\ ch_req[s].conversation_id = ch_req'[r].conversation_id) =>
            LET q == ch_req[r]
                o == ch_req[s]
                cid == q.context[1].conversation_id
                snap == get_context(ch_contexts', cid)
                users(m) == Cardinality(MessageRows(ch_messages', cid, "user", m))
                replies(c) == Cardinality(MessageRows(ch_messages', cid, "assistant", c))
            IN /\ users(q.message) >= (IF o.message = q.message THEN 2 ELSE 1)
               /\ users(o.message) >= (IF o.message = q.message THEN 2 ELSE 1)
               /\ replies(q.response[1]) >= (IF o.response = q.response THEN 2 ELSE 1)
               /\ replies(o.response[1]) >= (IF o.response = q.response THEN 2 ELSE 1)
               /\ snap # None
               /\ snap[1].messages = q.context[1].messages
               /\ Len(snap[1].tool_history) = Len(q.loaded[1].tool_history) + 1]_vars

\* two overlapping requests succeeded on one conversation: four rows in table
\* messages, and a snapshot that holds the last writer's exchange only
C11_Witness ==
    /\ \A r \in Slots : ch_req[r].pc = "done" /\ ch_req[r].status = 200
    /\ ch_req[1].conversation_id = ch_req[2].conversation_id
    /\ LET cid == ch_req[1].conversation_id[1]
           snap == get_context(ch_contexts, cid)
       IN /\ Cardinality({i \in 1..Len(ch_messages) :
                             ch_messages[i].conversation_id = cid}) = 4
          /\ snap # None
          /\ Len(snap[1].messages) = 2

(***************************************************************************)
(* /auth: API keys issued, revoked, listed and presented, under a clock    *)
(***************************************************************************)
AKInit ==
    /\ ak_users = InitialUsers(TRUE)
    /\ ak_api_keys = NoTable
    /\ ak_audit_logs = <<>>
    /\ ak_env = Some(EnvKey)
    /\ ak_now = 1
    /\ ak_issued = 0
    /\ ak_out = NoResponse

CurrentUser(credential) ==
    get_current_user(ak_users, ak_api_keys, ak_env, credential, ak_now)

AKTick ==
    /\ ak_now < AKMaxTime
    /\ ak_now' = ak_now + 1
    /\ UNCHANGED <<ak_users, ak_api_keys, ak_audit_logs, ak_env, ak_issued, ak_out>>
    /\ Frame("ak")

\* uuid.uuid4() for the next user: after the key ids
NextUserId ==
    uuid4(MaxKeys + 1 + Cardinality({i \in DOMAIN ak_audit_logs :
                                       ak_audit_logs[i].resource_type = "user"}))

\* POST /auth/users (admin only): the handler run without interruption
AKCreateUser ==
    /\ Len(ak_audit_logs) < MaxAudited
    /\ \E credential \in Credentials(ak_issued, {"X-API-Key"}),
          username \in NewUsernames :
        LET admin_user == CurrentUser(credential)
            user_id == NextUserId
        IN IF admin_user = None
           THEN /\ ak_out' = Response("create_user", credential, 401, <<>>)
                /\ UNCHANGED <<ak_users, ak_audit_logs>>
           ELSE IF get_user_role([role |-> Some(admin_user[1].role)]) # ADMIN
           THEN /\ ak_out' = Response("create_user", credential, 403, <<>>)
                /\ UNCHANGED <<ak_users, ak_audit_logs>>
           ELSE IF sqlite_get_user_by_username(ak_users, username) # None
           THEN /\ ak_out' = Response("create_user", credential, 409, <<>>)
                /\ UNCHANGED <<ak_users, ak_audit_logs>>
           ELSE /\ ak_users' = sqlite_create_user(ak_users, user_id, username,
                                                  None, None, "user")
                /\ ak_audit_logs' =
                     log_audit_event(ak_audit_logs, "admin_action",
                                     Some(admin_user[1].user_id), "user", user_id,
                                     [action |-> "create", username |-> username,
                                      role |-> "user"])
                /\ ak_out' = Response("create_user", credential, 200,
                                 <<[user_id |-> user_id, username |-> username,
                                    email |-> None, role |-> "user"]>>)
    /\ UNCHANGED <<ak_api_keys, ak_env, ak_now, ak_issued>>
    /\ Frame("ak")

\* POST /auth/users/{user_id}/api-keys
AKCreateApiKey ==
    /\ ak_issued < MaxKeys
    /\ Len(ak_audit_logs) < MaxAudited
    /\ \E credential \in Credentials(ak_issued, {"X-API-Key"}), user_id \in PathUserIds,
          name \in KeyNames, expires_days \in ExpiresDays :
        LET current_user == CurrentUser(credential)
            api_key == token_urlsafe(ak_issued + 1)
            key_id == uuid4(ak_issued + 1)
            expires_at == IF expires_days # None
                          THEN Some(ak_now + expires_days[1]) ELSE None
        IN IF current_user = None
           THEN /\ ak_out' = Response("create_api_key", credential, 401, <<>>)
                /\ UNCHANGED <<ak_api_keys, ak_audit_logs, ak_issued>>
           ELSE IF current_user[1].user_id # user_id /\ current_user[1].role # "admin"
           THEN /\ ak_out' = Response("create_api_key", credential, 403, <<>>)
                /\ UNCHANGED <<ak_api_keys, ak_audit_logs, ak_issued>>
           ELSE /\ ak_api_keys' =
                     sqlite_create_api_key(ak_api_keys, key_id, user_id,
                                           hash_api_key(api_key), name, expires_at)
                /\ ak_audit_logs' =
                     log_audit_event(ak_audit_logs, "resource_create",
                                     Some(current_user[1].user_id), "api_key", key_id,
                                     [user_id |-> Some(user_id), name |-> name])
                /\ ak_issued' = ak_issued + 1
                /\ ak_out' =
                     IF expires_days = None
                     THEN \* datetime is imported only when expires_days is given:
                          \* datetime.now() in the return raises UnboundLocalError
                          Response("create_api_key", credential, 500, <<>>)
                     ELSE Response("create_api_key", credential, 200,
                                   <<[id |-> key_id, key |-> api_key, name |-> name,
                                      expires_at |-> expires_at]>>)
    /\ UNCHANGED <<ak_users, ak_env, ak_now>>
    /\ Frame("ak")

\* DELETE /auth/users/{user_id}/api-keys/{key_id}
AKRevokeApiKey ==
    /\ Len(ak_audit_logs) < MaxAudited
    /\ \E credential \in Credentials(ak_issued, {"X-API-Key"}), user_id \in PathUserIds,
          key_id \in DOMAIN ak_api_keys :
        LET current_user == CurrentUser(credential)
        IN IF current_user = None
           THEN /\ ak_out' = Response("revoke_api_key", credential, 401, <<>>)
                /\ UNCHANGED <<ak_api_keys, ak_audit_logs>>
           ELSE IF current_user[1].user_id # user_id /\ current_user[1].role # "admin"
           THEN /\ ak_out' = Response("revoke_api_key", credential, 403, <<>>)
                /\ UNCHANGED <<ak_api_keys, ak_audit_logs>>
           ELSE /\ ak_api_keys' = sqlite_revoke_api_key(ak_api_keys, key_id, ak_now)
                /\ ak_audit_logs' =
                     log_audit_event(ak_audit_logs, "resource_delete",
                                     Some(current_user[1].user_id), "api_key", key_id,
                                     [user_id |-> Some(user_id), name |-> None])
                /\ ak_out' = Response("revoke_api_key", credential, 200, <<>>)
    /\ UNCHANGED <<ak_users, ak_env, ak_now, ak_issued>>
    /\ Frame("ak")

\* GET /auth/users/{user_id}/api-keys
AKListApiKeys ==
    /\ \E credential \in Credentials(ak_issued, {"X-API-Key"}), user_id \in PathUserIds :
        LET current_user == CurrentUser(credential)
        IN ak_out' =
             IF current_user = None
             THEN Response("list_api_keys", credential, 401, <<>>)
             ELSE IF current_user[1].user_id # user_id /\ current_user[1].role # "admin"
             THEN Response("list_api_keys", credential, 403, <<>>)
             ELSE Response("list_api_keys", credential, 200,
                           sqlite_list_api_keys(ak_api_keys, user_id, ak_now))
    /\ UNCHANGED <<ak_users, ak_api_keys, ak_audit_logs, ak_env, ak_now, ak_issued>>
    /\ Frame("ak")

\* GET /auth/audit/logs (admin only)
AKGetAuditLogs ==
    /\ \E credential \in Credentials(ak_issued, {"X-API-Key"}) :
        LET user == CurrentUser(credential)
        IN ak_out' =
             IF user = None THEN Response("get_audit_logs", credential, 401, <<>>)
             ELSE IF user[1].role # "admin"
             THEN Response("get_audit_logs", credential, 403, <<>>)
             ELSE Response("get_audit_logs", credential, 200, ak_audit_logs)
    /\ UNCHANGED <<ak_users, ak_api_keys, ak_audit_logs, ak_env, ak_now, ak_issued>>
    /\ Frame("ak")

\* GET /auth/me: any request behind require_auth
AKMe ==
    /\ \E credential \in Credentials(ak_issued, Channels) :
        LET user == CurrentUser(credential)
        IN ak_out' =
             IF user = None THEN Response("me", credential, 401, <<>>)
             ELSE Response("me", credential, 200, <<user[1]>>)
    /\ UNCHANGED <<ak_users, ak_api_keys, ak_audit_logs, ak_env, ak_now, ak_issued>>
    /\ Frame("ak")

\* SQLiteStorage.get_api_key and SQLiteStorage.get_user, as the storage returns them
AKFetch ==
    /\ \/ \E key_id \in DOMAIN ak_api_keys :
            ak_out' = Response("get_api_key", NotPresented, 200,
                               sqlite_get_api_key(ak_api_keys, key_id))
       \/ \E user_id \in DOMAIN ak_users :
            ak_out' = Response("get_user", NotPresented, 200,
                               sqlite_get_user(ak_users, user_id))
    /\ UNCHANGED <<ak_users, ak_api_keys, ak_audit_logs, ak_env, ak_now, ak_issued>>
    /\ Frame("ak")

AKNext ==
    \/ AKTick
    \/ AKCreateUser
    \/ AKCreateApiKey
    \/ AKRevokeApiKey
    \/ AKListApiKeys
    \/ AKGetAuditLogs
    \/ AKMe
    \/ AKFetch

AKSpecInit == AKInit /\ IdleBut("ak")

AKSpec == AKSpecInit /\ [][AKNext]_vars

\* the api_keys rows stored for a presented key
KeyRows(api_key) ==
    {k \in DOMAIN ak_api_keys : ak_api_keys[k].key_hash = hash_api_key(api_key)}

KeyValid(k, now) ==
    /\ ak_api_keys[k].revoked_at = None
    /\ ak_api_keys[k].expires_at = None \/ ak_api_keys[k].expires_at[1] > now

\* C12: a request presenting an issued API key is authenticated if and only
\* if the key is not revoked and has no expiry or an expiry later than now.
C12_AuthenticatesIffValid ==
    [][(ak_out' # ak_out /\ ak_out'.op = "me" /\ ak_out'.credential[1] = "key") =>
        \A k \in KeyRows(ak_out'.credential[2]) :
            (ak_out'.status = 200) <=> KeyValid(k, ak_now)]_vars

\* The half of C12 that the code keeps: a revoked or expired key is rejected.
C12_RevokedOrExpiredRejected ==
    [][(ak_out' # ak_out /\ ak_out'.op = "me" /\ ak_out'.credential[1] = "key") =>
        \A k \in KeyRows(ak_out'.credential[2]) :
            (ak_out'.status = 200) => KeyValid(k, ak_now)]_vars

OptText(x) == IF x = None THEN {} ELSE {x[1]}

AuditTexts(row) ==
    {row.event_type, row.resource_type, row.resource_id}
    \cup OptText(row.user_id)
    \cup (IF row.resource_type = "user"
          THEN {row.details.action, row.details.username, row.details.role}
          ELSE OptText(row.details.user_id) \cup OptText(row.details.name))

\* every text held in the users, api_keys and audit_logs tables
StoredTexts ==
    UNION {{u, ak_users[u].username, ak_users[u].role}
           \cup OptText(ak_users[u].api_key_hash) : u \in DOMAIN ak_users}
    \cup UNION {{k, ak_api_keys[k].user_id, ak_api_keys[k].key_hash}
                \cup OptText(ak_api_keys[k].name) : k \in DOMAIN ak_api_keys}
    \cup UNION {AuditTexts(ak_audit_logs[i]) : i \in DOMAIN ak_audit_logs}

\* every text in the body of the last response
ReturnedTexts ==
    CASE ak_out.status # 200 -> {}
      [] ak_out.op = "create_api_key" ->
            {ak_out.body[1].id, ak_out.body[1].key} \cup OptText(ak_out.body[1].name)
      [] ak_out.op = "list_api_keys" ->
            UNION {{r.id, r.key_hash} \cup OptText(r.name) : r \in ak_out.body}
      [] ak_out.op = "get_audit_logs" ->
            UNION {AuditTexts(ak_out.body[i]) : i \in DOMAIN ak_out.body}
      [] ak_out.op = "me" ->
            {ak_out.body[1].user_id, ak_out.body[1].username, ak_out.body[1].role}
      [] ak_out.op = "get_api_key" ->
            {ak_out.body[1].id, ak_out.body[1].user_id, ak_out.body[1].key_hash}
            \cup OptText(ak_out.body[1].name)
      [] ak_out.op = "get_user" ->
            {ak_out.body[1].user_id, ak_out.body[1].username, ak_out.body[1].role}
            \cup OptText(ak_out.body[1].api_key_hash)
      [] OTHER -> {}

\* C13: the plaintext of an issued key appears only in the response of the
\* request that created it; every table holds the hash of the key and never
\* the key, and no other response (listing keys, fetching a key or a user,
\* reading the audit log, authenticating) carries the key.
C13_PlaintextOnlyAtCreation ==
    /\ StoredTexts \cap IssuedKeys(ak_issued) = {}
    /\ \A k \in DOMAIN ak_api_keys :
          \E i \in 1..ak_issued : ak_api_keys[k].key_hash = hash_api_key(token_urlsafe(i))
    /\ IF ak_out.op = "create_api_key" /\ ak_out.status = 200
       THEN ReturnedTexts \cap IssuedKeys(ak_issued) = {token_urlsafe(ak_issued)}
       ELSE ReturnedTexts \cap IssuedKeys(ak_issued) = {}

C13_Witness ==
    /\ ak_issued = MaxKeys
    /\ ak_out.op = "list_api_keys"
    /\ ak_out.status = 200
    /\ ak_out.body # {}
    /\ Len(ak_audit_logs) > 0

\* the routes the description calls admin-only
AdminRoutes ==
    {"create_user", "create_api_key", "list_api_keys", "revoke_api_key",
     "get_audit_logs"}

\* a request to one of the routes in `routes` has just been answered, and its
\* caller authenticated as someone who is not an admin
ByNonAdmin(routes) ==
    /\ ak_out' # ak_out
    /\ ak_out'.op \in routes
    /\ CurrentUser(ak_out'.credential) # None
    /\ CurrentUser(ak_out'.credential)[1].role # "admin"

StoreUnchanged == UNCHANGED <<ak_users, ak_api_keys, ak_audit_logs>>

\* C29: a request to create a user, to create, list or revoke API keys of a
\* user id, or to read the audit log, from an authenticated caller who is
\* not an admin, is rejected with 403 and changes nothing in the store.
C29_AdminOnly ==
    [][ByNonAdmin(AdminRoutes) => (ak_out'.status = 403 /\ StoreUnchanged)]_vars

\* C29 for the two routes behind require_role(Role.ADMIN)
C29_UsersAndAuditLogs ==
    [][ByNonAdmin({"create_user", "get_audit_logs"})
        => (ak_out'.status = 403 /\ StoreUnchanged)]_vars

\* the key rows a step has inserted or changed
Touched ==
    {k \in DOMAIN ak_api_keys' :
        k \notin DOMAIN ak_api_keys \/ ak_api_keys'[k] # ak_api_keys[k]}

\* creating and listing keys: a caller who is not an admin reaches the keys
\* of the caller's own user id only
C29_CreateAndListOwn ==
    [][ByNonAdmin({"create_api_key", "list_api_keys"})
        => LET user_id == CurrentUser(ak_out'.credential)[1].user_id IN
           /\ \A k \in Touched : ak_api_keys'[k].user_id = user_id
           /\ (ak_out'.op = "list_api_keys" /\ ak_out'.status = 200)
                 => \A r \in ak_out'.body : ak_api_keys[r.id].user_id = user_id]_vars

\* revoking: a caller who is not an admin revokes keys of the caller's own
\* user id only
C29_RevokeOwn ==
    [][ByNonAdmin({"revoke_api_key"})
        => \A k \in Touched :
              ak_api_keys'[k].user_id = CurrentUser(ak_out'.credential)[1].user_id]_vars

(***************************************************************************)
(* /ws/chat: one client sending frames to handle_websocket_chat            *)
(***************************************************************************)
WSInit ==
    /\ ws_config \in [adapters : SUBSET AdapterNames, routing : Routings]
    /\ \E mobile_api_key \in MobileApiKeys : ws_conn = Connection(mobile_api_key)
    /\ ws_received = <<>>

\* websocket.receive_json() returns data; the frames sent for earlier
\* frames are the client's by then, so sent restarts with this frame
WSReceive(frames) ==
    /\ ws_conn.running
    /\ Len(ws_received) < MaxFrames
    /\ \E data \in frames, outcome \in StreamOutcomes :
        /\ ws_conn' = handle_frame([ws_conn EXCEPT !.sent = <<>>], data,
                                   get_router(ws_config), get_adapters(ws_config),
                                   outcome)
        /\ ws_received' = Append(ws_received, data)
    /\ UNCHANGED ws_config
    /\ Frame("ws")

WSAuth == WSReceive(AuthFrames)

WSChat == WSReceive(ChatFrames)

WSPing == WSReceive(PingFrames)

WSOther == WSReceive(OtherFrames)

\* the client goes away: receive_json raises WebSocketDisconnect
WSDisconnect ==
    /\ ws_conn.running
    /\ ws_conn' = leave([ws_conn EXCEPT !.sent = <<>>])
    /\ UNCHANGED <<ws_config, ws_received>>
    /\ Frame("ws")

WSNext ==
    \/ WSAuth
    \/ WSChat
    \/ WSPing
    \/ WSOther
    \/ WSDisconnect

WSSpecInit == WSInit /\ IdleBut("ws")

WSSpec == WSSpecInit /\ [][WSNext]_vars

\* the step handles one more client frame
Handled == ws_received' # ws_received

LastFrame == ws_received'[Len(ws_received')]

FrameType(data) == IF data.type = None THEN "chat" ELSE data.type[1]

\* an auth frame carrying the configured key is among the frames received
AuthReceived(received) ==
    \E i \in DOMAIN received :
        /\ FrameType(received[i]) = "auth"
        /\ received[i].api_key = ws_conn.mobile_api_key

Types(sent) == [i \in DOMAIN sent |-> sent[i].type]

\* C14: with an API key configured, nothing is routed and no adapter is
\* invoked while no auth frame with that key has been received; a chat frame
\* received before it is answered with one error frame and the handler keeps
\* running; an auth frame with another key is answered with one error frame
\* and the handler ends.
C14_NoChatBeforeAuth ==
    [][(Handled /\ ws_conn.mobile_api_key # None) =>
        /\ ~AuthReceived(ws_received') =>
              /\ ws_conn'.routed = 0
              /\ ws_conn'.invoked = {}
        /\ (FrameType(LastFrame) = "chat" /\ ~AuthReceived(ws_received)) =>
              /\ Types(ws_conn'.sent) = <<"error">>
              /\ ws_conn'.running
              /\ ws_conn'.connected
        /\ (FrameType(LastFrame) = "auth"
                /\ LastFrame.api_key # ws_conn.mobile_api_key) =>
              /\ Types(ws_conn'.sent) = <<"error">>
              /\ ~ws_conn'.running
              /\ ~ws_conn'.connected]_vars

\* a chat frame was refused before authentication and the connection went on
\* to a wrong-key auth frame, which closed it
C14_Witness ==
    /\ ws_conn.mobile_api_key # None
    /\ Len(ws_received) = 2
    /\ FrameType(ws_received[1]) = "chat"
    /\ FrameType(ws_received[2]) = "auth"
    /\ ws_received[2].api_key = Some("bad")
    /\ Types(ws_conn.sent) = <<"error">>
    /\ ~ws_conn.running

\* start, chunk*, then end or error
ChatReply(types) ==
    /\ Len(types) >= 2
    /\ types[1] = "start"
    /\ types[Len(types)] \in {"end", "error"}
    /\ \A i \in 2..(Len(types) - 1) : types[i] = "chunk"

\* C15: every chat frame of an authenticated client is answered with one
\* start frame, any number of chunk frames and one end or error frame, and
\* the handler is still running for the next frame.
C15_StartChunksEnd ==
    [][(Handled /\ FrameType(LastFrame) = "chat" /\ ws_conn.authenticated) =>
        /\ ChatReply(Types(ws_conn'.sent))
        /\ ws_conn'.running]_vars

(***************************************************************************)
(* Two SQLiteMigrationRunner.migrate_up() runs on one database, on one     *)
(* shared SQLiteStorage or on one each                                     *)
(***************************************************************************)
MCInit ==
    /\ mc_shared \in BOOLEAN
    /\ \E n \in 1..MaxVersion : mc_migrations = [i \in 1..n |-> i]
    /\ mc_db = Database({}, {})
    /\ mc_conn = [c \in Runners |-> CleanConnection]
    /\ mc_run = [r \in Runners |-> NoRun]

\* the connection of a run's storage
ConnOf(r) == IF mc_shared THEN 1 ELSE r

\* no other connection holds the database's write lock
MayWrite(c) == \A o \in Runners \ {c} : ~mc_conn[o].dirty

Raise(r, result) ==
    mc_run' = [mc_run EXCEPT ![r] = [NoRun EXCEPT !.pc = "done", !.result = result]]

Goto(r, pc) == mc_run' = [mc_run EXCEPT ![r].pc = pc]

\* ensure_migrations_table: CREATE TABLE IF NOT EXISTS, then commit
Ensure(c) ==
    /\ mc_db' = commit_transaction(mc_db, mc_conn[c])[1]
    /\ mc_conn' = [mc_conn EXCEPT ![c] = commit_transaction(mc_db, mc_conn[c])[2]]

\* migrate_up(): line 62
MCStart(r) ==
    /\ mc_run[r].pc = "idle"
    /\ Ensure(ConnOf(r))
    /\ Goto(r, "get_current_version")
    /\ UNCHANGED <<mc_shared, mc_migrations>>
    /\ Frame("mc")

\* line 64: current_version = await self.get_current_version()
MCGetCurrentVersion(r) ==
    /\ mc_run[r].pc = "get_current_version"
    /\ Ensure(ConnOf(r))
    /\ mc_run' = [mc_run EXCEPT ![r].pc = "get_applied_migrations",
                                ![r].current_version =
                                    get_current_version(View(mc_db, mc_conn[ConnOf(r)]).rows)]
    /\ UNCHANGED <<mc_shared, mc_migrations>>
    /\ Frame("mc")

\* lines 65-67: applied = await self.get_applied_migrations(); target
MCGetApplied(r) ==
    /\ mc_run[r].pc = "get_applied_migrations"
    /\ Ensure(ConnOf(r))
    /\ mc_run' = [mc_run EXCEPT ![r].pc = "for",
                                ![r].applied = View(mc_db, mc_conn[ConnOf(r)]).rows,
                                ![r].target = up_target(None, mc_migrations),
                                ![r].todo = mc_migrations]
    /\ UNCHANGED <<mc_shared, mc_migrations>>
    /\ Frame("mc")

\* lines 69-82: the next migration of the loop, up to begin_transaction
MCFor(r) ==
    /\ mc_run[r].pc = "for"
    /\ LET run == mc_run[r]
           c == ConnOf(r)
       IN IF run.todo = <<>>
          THEN /\ Raise(r, "ok")
               /\ UNCHANGED mc_conn
          ELSE LET version == Head(run.todo)
               IN IF version > run.target \/ version \in run.applied
                  THEN /\ mc_run' = [mc_run EXCEPT ![r].todo = Tail(@)]
                       /\ UNCHANGED mc_conn
                  ELSE IF gap_detected(run.current_version, version)
                  THEN /\ Raise(r, "gap_error")
                       /\ UNCHANGED mc_conn
                  ELSE IF begin_transaction(mc_conn[c]) = None
                  THEN /\ Raise(r, "begin_error")
                       /\ UNCHANGED mc_conn
                  ELSE /\ mc_conn' = [mc_conn EXCEPT ![c] = begin_transaction(@)[1]]
                       /\ Goto(r, "up_sql")
    /\ UNCHANGED <<mc_shared, mc_migrations, mc_db>>
    /\ Frame("mc")

\* line 84, execute_migration: connection.execute(up_sql)
MCUpSql(r) ==
    /\ mc_run[r].pc = "up_sql"
    /\ MayWrite(ConnOf(r))
    /\ LET c == ConnOf(r)
           version == Head(mc_run[r].todo)
           done == execute_migration(mc_db, mc_conn[c], version)
       IN \/ \* the objects are created, or are there and the SQL says IF NOT EXISTS
             /\ mc_db' = done[1]
             /\ mc_conn' = [mc_conn EXCEPT ![c] = done[2]]
             /\ Goto(r, "up_commit")
          \/ \* the objects are there and the SQL does not expect them
             /\ version \in View(mc_db, mc_conn[c]).schema
             /\ Goto(r, "rollback")
             /\ UNCHANGED <<mc_db, mc_conn>>
    /\ UNCHANGED <<mc_shared, mc_migrations>>
    /\ Frame("mc")

\* execute_migration: connection.commit()
MCUpCommit(r) ==
    /\ mc_run[r].pc = "up_commit"
    /\ LET c == ConnOf(r)
           done == commit_transaction(mc_db, mc_conn[c])
       IN /\ mc_db' = done[1]
          /\ mc_conn' = [mc_conn EXCEPT ![c] = done[2]]
    /\ Goto(r, "insert")
    /\ UNCHANGED <<mc_shared, mc_migrations>>
    /\ Frame("mc")

\* lines 85-88: the version row
MCInsert(r) ==
    /\ mc_run[r].pc = "insert"
    /\ MayWrite(ConnOf(r))
    /\ LET c == ConnOf(r)
           done == insert_version(mc_db, mc_conn[c], Head(mc_run[r].todo))
       IN /\ mc_db' = done[1]
          /\ mc_conn' = [mc_conn EXCEPT ![c] = done[2]]
          /\ Goto(r, IF done[3] THEN "commit" ELSE "rollback")
    /\ UNCHANGED <<mc_shared, mc_migrations>>
    /\ Frame("mc")

\* line 89 and line 94
MCCommit(r) ==
    /\ mc_run[r].pc = "commit"
    /\ LET c == ConnOf(r)
           done == commit_transaction(mc_db, mc_conn[c])
       IN /\ mc_db' = done[1]
          /\ mc_conn' = [mc_conn EXCEPT ![c] = done[2]]
    /\ mc_run' = [mc_run EXCEPT ![r].pc = "for",
                                ![r].current_version = Some(Head(mc_run[r].todo)),
                                ![r].todo = Tail(@)]
    /\ UNCHANGED <<mc_shared, mc_migrations>>
    /\ Frame("mc")

\* lines 90-92: rollback_transaction, raise
MCRollback(r) ==
    /\ mc_run[r].pc = "rollback"
    /\ LET c == ConnOf(r)
           done == rollback_transaction(mc_db, mc_conn[c])
       IN /\ mc_db' = done[1]
          /\ mc_conn' = [mc_conn EXCEPT ![c] = done[2]]
    /\ Raise(r, "sql_error")
    /\ UNCHANGED <<mc_shared, mc_migrations>>
    /\ Frame("mc")

MCNext ==
    \E r \in Runners :
        \/ MCStart(r)
        \/ MCGetCurrentVersion(r)
        \/ MCGetApplied(r)
        \/ MCFor(r)
        \/ MCUpSql(r)
        \/ MCUpCommit(r)
        \/ MCInsert(r)
        \/ MCCommit(r)
        \/ MCRollback(r)

MCSpecInit == MCInit /\ IdleBut("mc")

MCSpec == MCSpecInit /\ [][MCNext]_vars

Newest == Len(mc_migrations)

BothDone == \A r \in Runners : mc_run[r].pc = "done"

\* C16: the schema objects of a version exist exactly when its version row
\* exists, at every point of migrate_up, in the database as committed.
C16_SchemaIffRow == mc_db.schema = mc_db.rows

\* C18: once two concurrent migrate_up() runs have finished, at least one
\* has completed without error and the database holds exactly the version
\* rows 1..N and the schema objects of each.
C18_OneCompletesAllApplied ==
    BothDone =>
        /\ \E r \in Runners : mc_run[r].result = "ok"
        /\ mc_db.rows = 1..Newest
        /\ mc_db.schema = 1..Newest

\* C18 for runs that each have their own connection
C18_OwnConnections == mc_shared \/ C18_OneCompletesAllApplied

(***************************************************************************)
(* One Context: messages appended, manage_window and compress called       *)
(***************************************************************************)
WMInit == WMIdle

\* datetime.now().timestamp(): one second after the newest message
Now(messages) ==
    IF messages = <<>> THEN 1
    ELSE 1 + SetMax({messages[i].timestamp : i \in 1..Len(messages)})

\* a message is appended to context.messages
WMAppend ==
    \E role \in WMRoles, content \in WMContents :
        /\ Now(wm_messages) <= MaxWindowMessages
        /\ wm_messages' = Append(wm_messages, Message(role, content, Now(wm_messages)))
        /\ wm_call' = NoCall
        /\ Frame("wm")

\* ContextManager.manage_window(context, model, reserved_tokens)
WMManageWindow ==
    \E model \in WMModels, reserved_tokens \in WMReserved :
        /\ wm_messages # <<>>
        /\ wm_messages' = manage_window(wm_messages, model, reserved_tokens)
        /\ wm_call' = [op |-> "manage_window", model |-> model,
                       reserved_tokens |-> reserved_tokens,
                       before |-> wm_messages, after |-> wm_messages']
        /\ Frame("wm")

\* ContextManager.compress(context)
WMCompress ==
    /\ wm_messages # <<>>
    /\ wm_messages' = compress(wm_messages)
    /\ wm_call' = [op |-> "compress", model |-> "", reserved_tokens |-> None,
                   before |-> wm_messages, after |-> wm_messages']
    /\ Frame("wm")

WMNext == WMAppend \/ WMManageWindow \/ WMCompress

WMSpecInit == WMInit /\ IdleBut("wm")

WMSpec == WMSpecInit /\ [][WMNext]_vars

\* the headroom the caller asked for; manage_window's default is 1000
Reserved(call) ==
    IF call.reserved_tokens = None THEN 1000 ELSE call.reserved_tokens[1]

\* C23: the context returned by manage_window has estimated tokens, by the
\* estimator that decides whether trimming is needed, of at most the model
\* window minus the reserved headroom.
C23_WindowFit ==
    wm_call.op = "manage_window"
    => estimated_tokens(wm_call.after)
          <= window_size(wm_call.model) - Reserved(wm_call)

RECURSIVE token_count(_)
\* the tokens of the messages as the trimming loops count them
token_count(messages) ==
    IF messages = <<>> THEN 0
    ELSE Len(Head(messages).content) \div 4 + token_count(Tail(messages))

\* C23 with a budget that is not negative
C23_BudgetNotNegative ==
    window_size(wm_call.model) - Reserved(wm_call) >= 0 => C23_WindowFit

\* C23 for the count the trimming loops keep: every message counted by
\* itself, rounded down, when the budget is not negative
C23_PerMessageFit ==
    (/\ wm_call.op = "manage_window"
     /\ wm_call.after # wm_call.before
     /\ window_size(wm_call.model) - Reserved(wm_call) >= 0)
    => token_count(wm_call.after) <= window_size(wm_call.model) - Reserved(wm_call)

RECURSIVE IsSubsequence(_, _)
\* s can be had from t by deleting elements
IsSubsequence(s, t) ==
    IF s = <<>> THEN TRUE
    ELSE IF t = <<>> THEN FALSE
    ELSE IF Head(s) = Head(t) THEN IsSubsequence(Tail(s), Tail(t))
    ELSE IsSubsequence(s, Tail(t))

\* C24: the messages retained by manage_window are in the same relative
\* order as in the original conversation: the result is an order-preserving
\* subsequence of the input.
C24_OrderPreserved ==
    wm_call.op = "manage_window" => IsSubsequence(wm_call.after, wm_call.before)

\* what manage_window does keep of the order: the result read backwards is
\* the retained system messages, then the retained other messages, each
\* group in the original order
C24_ReversedGroups ==
    (wm_call.op = "manage_window" /\ wm_call.after # wm_call.before)
    => LET back == Reverse(wm_call.after)
           n == count_system(back)
       IN /\ \A i \in 1..Len(back) : (back[i].role = "system") <=> (i <= n)
          /\ IsSubsequence(SubSeq(back, 1, n), wm_call.before)
          /\ IsSubsequence(SubSeq(back, n + 1, Len(back)), wm_call.before)

\* the message at index i repeats the one immediately before it
Duplicate(messages, i) ==
    /\ i > 1
    /\ messages[i].role = messages[i - 1].role
    /\ messages[i].content = messages[i - 1].content

\* the timestamps of a list of messages; in WMSpec they identify the message
Timestamps(messages) == [i \in 1..Len(messages) |-> messages[i].timestamp]

RECURSIVE WithoutDuplicates(_, _)
\* the input from index i on, less its consecutive duplicates
WithoutDuplicates(messages, i) ==
    IF i > Len(messages) THEN <<>>
    ELSE (IF Duplicate(messages, i) THEN <<>> ELSE <<messages[i]>>)
             \o WithoutDuplicates(messages, i + 1)

\* C25: compress drops a message iff it has the role and the content of the
\* message immediately before it, and no two adjacent messages of the
\* returned context have the same (role, content).
C25_ExactlyConsecutiveDuplicates ==
    wm_call.op = "compress"
    => /\ Timestamps(wm_call.after) = Timestamps(WithoutDuplicates(wm_call.before, 1))
       /\ \A i \in 1..Len(wm_call.after) : ~Duplicate(wm_call.after, i)

\* what compress does drop: the messages whose content is that of the
\* message immediately before, whatever the roles
C25_SameContentDropped ==
    wm_call.op = "compress"
    => \A i \in 1..Len(wm_call.before) :
          (wm_call.before[i].timestamp \in
              {wm_call.after[j].timestamp : j \in 1..Len(wm_call.after)})
          <=> (i = 1 \/ wm_call.before[i].content # wm_call.before[i - 1].content)

\* C26: no message content in the context returned by compress is longer
\* than 2000 characters.
C26_AtMost2000 ==
    wm_call.op = "compress"
    => \A i \in 1..Len(wm_call.after) : Len(wm_call.after[i].content) <= 2000

\* what compress does bound: a content longer than 2000 characters comes
\* back with 2019 characters, any other content as it was
C26_AtMost2019 ==
    wm_call.op = "compress"
    => \A j \in 1..Len(wm_call.after) : \A i \in 1..Len(wm_call.before) :
          wm_call.before[i].timestamp = wm_call.after[j].timestamp
          => IF Len(wm_call.before[i].content) > 2000
             THEN Len(wm_call.after[j].content) = 2019
             ELSE wm_call.after[j].content = wm_call.before[i].content

(***************************************************************************)
(* Router.route: one router, routing one message after another             *)
(***************************************************************************)
ROInit ==
    /\ ro_router \in Routers
    /\ ro_decision = NoDecision

\* Router.route(message, explicit_tool=explicit_tool)
RORoute ==
    \E message \in RouteMessages, explicit_tool \in ExplicitTools :
        /\ ro_decision' = [message |-> message, explicit_tool |-> explicit_tool,
                           selected_tools |-> route(ro_router, message, explicit_tool),
                           routed |-> TRUE]
        /\ UNCHANGED ro_router
        /\ Frame("ro")

RONext == RORoute

ROSpecInit == ROInit /\ IdleBut("ro")

ROSpec == ROSpecInit /\ [][RONext]_vars

\* some keyword of the bucket occurs in the lowercased message
Matches(keywords, message) == \E kw \in keywords : StrIn(kw, lower(message))

\* the class by the stated order: code_editing, with the generation keywords
\* in it, then research, then terminal_automation, else general_chat
StatedClass(message) ==
    IF Matches(code_keywords \cup generation_keywords, message) THEN "code_editing"
    ELSE IF Matches(research_keywords, message) THEN "research"
    ELSE IF Matches(terminal_keywords, message) THEN "terminal_automation"
    ELSE "general_chat"

\* the stated algorithm: [T] for an explicit tool T, else the rule list of
\* the class (the general_chat list for terminal_automation), else
\* [default_tool]
StatedRoute(router, message, explicit_tool) ==
    IF Truthy(explicit_tool) THEN <<explicit_tool[1]>>
    ELSE LET class == StatedClass(message)
             key == IF class = "terminal_automation" THEN "general_chat" ELSE class
         IN IF key \in DOMAIN router.routing_rules
            THEN router.routing_rules[key]
            ELSE <<router.default_tool>>

\* C27: route returns what the stated algorithm returns, for every message,
\* rule table and explicit tool.
C27_RouteAsStated ==
    ro_decision.routed
    => ro_decision.selected_tools
          = StatedRoute(ro_router, ro_decision.message, ro_decision.explicit_tool)

\* route and the stated algorithm agree on every message in which a
\* generation keyword does not meet a research or terminal keyword
C27_AgreeUnlessOvertaken ==
    (/\ ro_decision.routed
     /\ ~ (/\ Matches(generation_keywords, ro_decision.message)
           /\ Matches(research_keywords \cup terminal_keywords, ro_decision.message)))
    => ro_decision.selected_tools
          = StatedRoute(ro_router, ro_decision.message, ro_decision.explicit_tool)

\* an explicit tool is returned alone, and a class without a rule list gives
\* the default tool
C27_ExplicitAndDefault ==
    ro_decision.routed
    => /\ Truthy(ro_decision.explicit_tool)
          => ro_decision.selected_tools = <<ro_decision.explicit_tool[1]>>
       /\ (/\ ~Truthy(ro_decision.explicit_tool)
           /\ ro_decision.message = <<"Hello">>
           /\ "general_chat" \notin DOMAIN ro_router.routing_rules)
          => ro_decision.selected_tools = <<ro_router.default_tool>>

(***************************************************************************)
(* check_resource_access against a database of contexts and indexed files  *)
(***************************************************************************)
RAInit == RAIdle

\* a context is stored for a conversation; its data may name a user_id
RAStoreContext ==
    \E conversation_id \in RAIds, user_id \in RAOwners :
        /\ conversation_id \notin DOMAIN ra_db.contexts
        /\ ra_db' = [ra_db EXCEPT !.contexts =
                        [c \in DOMAIN @ \cup {conversation_id} |->
                            IF c = conversation_id THEN [user_id |-> user_id]
                            ELSE @[c]]]
        /\ ra_check' = NoCheck
        /\ Frame("ra")

\* the indexer records a file of a project
RAIndexFile ==
    \E project_id \in RAIds :
        /\ project_id \notin ra_db.indexed_files
        /\ ra_db' = [ra_db EXCEPT !.indexed_files = @ \cup {project_id}]
        /\ ra_check' = NoCheck
        /\ Frame("ra")

\* the database file becomes unreadable (sqlite3 raises), or readable again
RAToggleDatabase ==
    /\ ra_db' = [ra_db EXCEPT !.readable = ~@]
    /\ ra_check' = NoCheck
    /\ Frame("ra")

\* await check_resource_access(user, resource_type, resource_id, action)
RACheck ==
    \E user \in RAUsers, resource_type \in RATypes, resource_id \in RAIds,
       action \in RAActions :
        /\ ra_check' = [user |-> user, resource_type |-> resource_type,
                        resource_id |-> resource_id, action |-> action,
                        result |-> check_resource_access(user, ra_db, resource_type,
                                                         resource_id, action),
                        done |-> TRUE]
        /\ UNCHANGED ra_db
        /\ Frame("ra")

RANext == RAStoreContext \/ RAIndexFile \/ RAToggleDatabase \/ RACheck

RASpecInit == RAInit /\ IdleBut("ra")

RASpec == RASpecInit /\ [][RANext]_vars

\* the owner the stored record of a resource names; the indexed files of a
\* project name none
StoredOwner(db, resource_type, resource_id) ==
    IF resource_type = "conversation" /\ resource_id \in DOMAIN db.contexts
    THEN db.contexts[resource_id].user_id
    ELSE None

\* the permission that matches an action on a resource type
MatchingPermission(resource_type, action) ==
    (IF resource_type = "conversation" THEN "chat" ELSE resource_type)
        \o ":" \o action

IsAdmin(user) == user.role = Some("admin")

\* C28: for a user who is not an admin, check_resource_access returns true
\* only if the stored record's owner is that user and the user holds the
\* permission matching the action (so it returns false for a conversation
\* whose stored owner is a different user); for an admin it returns true.
C28_OwnerAndPermission ==
    ra_check.done
    => IF IsAdmin(ra_check.user) THEN ra_check.result
       ELSE ra_check.result
            => /\ Truthy(ra_check.user.user_id)
               /\ StoredOwner(ra_db, ra_check.resource_type, ra_check.resource_id)
                     = ra_check.user.user_id
               /\ has_permission(ra_check.user,
                      MatchingPermission(ra_check.resource_type, ra_check.action))

\* what check_resource_access does decide on: an admin is admitted; anyone
\* else with a user_id is admitted to a project or a conversation iff the
\* role holds the permission matching the action, whatever the stored record
C28_PermissionOnly ==
    ra_check.done
    => (ra_check.result
        <=> \/ IsAdmin(ra_check.user)
            \/ /\ Truthy(ra_check.user.user_id)
               /\ ra_check.resource_type \in {"project", "conversation"}
               /\ ra_check.action \in {"read", "write", "delete"}
               /\ has_permission(ra_check.user,
                      MatchingPermission(ra_check.resource_type, ra_check.action)))

\* a user with role "user" has asked to read a conversation stored with
\* another user's id, and was admitted
C28_OtherUsersConversation ==
    ~ (/\ ra_check.done
       /\ ra_check.user = [user_id |-> Some("u1"), role |-> Some("user")]
       /\ ra_check.resource_type = "conversation"
       /\ ra_check.action = "read"
       /\ StoredOwner(ra_db, "conversation", ra_check.resource_id) = Some("u2")
       /\ ra_check.result)

(***************************************************************************)
(* POST /auth/users: create_user requests handled concurrently              *)
(***************************************************************************)
CUInit ==
    /\ cu_users = InitialUsers(FALSE)
    /\ cu_audit_logs = <<>>
    /\ cu_issued = 0
    /\ cu_req = [r \in CURequests |-> NoRequest]

Finish(r, status) == [cu_req EXCEPT ![r].pc = "done", ![r].status = status]

\* Depends(require_role(Role.ADMIN)): 403 unless the caller's role is admin
CURequireRole(r) ==
    /\ cu_req[r].pc = "idle"
    /\ \E admin_user \in CUCallers, request \in CreateUserRequests :
        LET arrived == [cu_req EXCEPT ![r].admin_user = Some(admin_user),
                                      ![r].request = Some(request)]
        IN cu_req' =
             IF get_user_role([role |-> Some(admin_user.role)]) # ADMIN
             THEN [arrived EXCEPT ![r].pc = "done", ![r].status = 403]
             ELSE [arrived EXCEPT ![r].pc = "get_user_by_username"]
    /\ UNCHANGED <<cu_users, cu_audit_logs, cu_issued>>
    /\ Frame("cu")

\* existing_user = await get_user_by_username(request.username); 409 if found
CUGetUserByUsername(r) ==
    /\ cu_req[r].pc = "get_user_by_username"
    /\ LET existing_user ==
               sqlite_get_user_by_username(cu_users, cu_req[r].request[1].username)
       IN cu_req' = IF existing_user # None
                    THEN Finish(r, 409)
                    ELSE [cu_req EXCEPT ![r].pc = "create_user"]
    /\ UNCHANGED <<cu_users, cu_audit_logs, cu_issued>>
    /\ Frame("cu")

\* user = await create_user_func(...): uuid4, hash_password, INSERT OR REPLACE
CUCreateUser(r) ==
    /\ cu_req[r].pc = "create_user"
    /\ LET request == cu_req[r].request[1]
           user_id == uuid4(cu_issued + 1)
           password_hash == IF request.password # None
                            THEN Some(hash_password(request.password[1])) ELSE None
       IN /\ cu_users' = sqlite_create_user(cu_users, user_id, request.username,
                                            request.email, password_hash, request.role)
          /\ cu_req' = [cu_req EXCEPT
                          ![r].pc = "log_event",
                          ![r].user = Some([user_id |-> user_id,
                                            username |-> request.username,
                                            email |-> request.email,
                                            role |-> request.role])]
    /\ cu_issued' = cu_issued + 1
    /\ UNCHANGED cu_audit_logs
    /\ Frame("cu")

\* await audit_logger.log_event(ADMIN_ACTION, ...); return user
CULogEvent(r) ==
    /\ cu_req[r].pc = "log_event"
    /\ cu_audit_logs' =
         log_audit_event(cu_audit_logs, "admin_action",
                         Some(cu_req[r].admin_user[1].user_id), "user",
                         cu_req[r].user[1].user_id,
                         [action |-> "create",
                          username |-> cu_req[r].request[1].username,
                          role |-> cu_req[r].request[1].role])
    /\ cu_req' = Finish(r, 200)
    /\ UNCHANGED <<cu_users, cu_issued>>
    /\ Frame("cu")

CUNext ==
    \E r \in CURequests :
        \/ CURequireRole(r)
        \/ CUGetUserByUsername(r)
        \/ CUCreateUser(r)
        \/ CULogEvent(r)

CUSpecInit == CUInit /\ IdleBut("cu")

CUSpec == CUSpecInit /\ [][CUNext]_vars

\* two requests by an admin have asked for the same username, one nobody held
SameNewUsername(r, s) ==
    /\ r # s
    /\ cu_req[r].pc = "done" /\ cu_req[r].status # 403
    /\ cu_req[s].pc = "done" /\ cu_req[s].status # 403
    /\ cu_req[r].request[1].username = cu_req[s].request[1].username
    /\ sqlite_get_user_by_username(InitialUsers(FALSE),
                                   cu_req[r].request[1].username) = None

OneCreates ==
    \A r, s \in CURequests :
        SameNewUsername(r, s) => {cu_req[r].status, cu_req[s].status} = {200, 409}

\* every row of users is still there, as it was
RowsKept ==
    \A u \in DOMAIN cu_users : u \in DOMAIN cu_users' /\ cu_users'[u] = cu_users[u]

\* C30: under every interleaving of two create-user requests for the same
\* username exactly one creates the user and the other is answered 409, and
\* no step of a create replaces or deletes a row that users already holds.
C30_UniqueWithoutOverwrite == [] OneCreates /\ [][RowsKept]_vars

\* the two halves of C30, each on its own
C30_OneCreatesOtherConflicts == OneCreates

C30_ExistingNeverReplaced == [][RowsKept]_vars

\* what the table itself keeps: no two rows share a username or an email,
\* and a create removes only rows that clash with the new row on one of them
C30_UniqueInTable ==
    \A u, v \in DOMAIN cu_users :
        u # v => /\ cu_users[u].username # cu_users[v].username
                 /\ cu_users[u].email = None \/ cu_users[u].email # cu_users[v].email

C30_RemovedOnlyOnClash ==
    [][\A r \in CURequests :
         (cu_req[r].pc = "create_user" /\ cu_req'[r].pc = "log_event")
         => \A u \in DOMAIN cu_users :
               \/ u \in DOMAIN cu_users' /\ cu_users'[u] = cu_users[u]
               \/ cu_users[u].username = cu_req[r].request[1].username
               \/ /\ cu_req[r].request[1].email # None
                  /\ cu_users[u].email = cu_req[r].request[1].email]_vars

\* a request that looks the username up after the other's insert is
\* answered 409: the race needs both lookups before either insert
C30_LookupAfterInsertConflicts ==
    [][\A r, s \in CURequests :
         (/\ r # s
          /\ cu_req[r].pc = "get_user_by_username"
          /\ cu_req'[r].pc # "get_user_by_username"
          /\ cu_req[s].pc \in {"log_event", "done"}
          /\ cu_req[s].user # None
          /\ cu_req[s].user[1].user_id \in DOMAIN cu_users
          /\ cu_req[s].request[1].username = cu_req[r].request[1].username)
         => cu_req'[r].status = 409]_vars

\* both requests for "carol" were answered 200
C30_BothCreated ==
    ~ (\A r \in CURequests :
          /\ cu_req[r].pc = "done" /\ cu_req[r].status = 200
          /\ cu_req[r].request[1].username = "carol")

(***************************************************************************)
(* handle_websocket_chat, lines 152-184 on their own: the streamed         *)
(* exchange of one chat frame, await by await, with a client that may go   *)
(* away at any moment.  The block does not depend on what line 129 left in *)
(* `context`: it only passes it to calls it never awaits.  (From a chat    *)
(* frame the handler does not get this far: see handle_chat.)              *)
(***************************************************************************)
SXInit ==
    /\ sx_conn \in {Connection(k) : k \in MobileApiKeys}
    /\ sx_gone \in BOOLEAN
    /\ sx_stream \in {Stream(outcome) : outcome \in StreamOutcomes}
    /\ sx_pc = "send_start"
    /\ sx_context = NoWrites

\* the client closes the socket or the network drops
SXClientGone ==
    /\ ~sx_gone
    /\ sx_pc # "done"
    /\ sx_gone' = TRUE
    /\ UNCHANGED <<sx_conn, sx_stream, sx_pc, sx_context>>
    /\ Frame("sx")

\* lines 153-156: the start frame
SXSendStart ==
    /\ sx_pc = "send_start"
    /\ \E selected_tool \in AdapterNames :
         sx_conn' = send_message_or_drop(
                        [sx_conn EXCEPT !.invoked = @ \cup {selected_tool}],
                        [type |-> "start", tool |-> selected_tool], sx_gone)
    /\ sx_pc' = "stream_chat"
    /\ UNCHANGED <<sx_gone, sx_stream, sx_context>>
    /\ Frame("sx")

\* line 164, "async for chunk in adapter.stream_chat(messages)": the next
\* chunk is pulled from the adapter, or the stream ends, or it raises
SXNextChunk ==
    /\ sx_pc = "stream_chat"
    /\ IF sx_stream.pulled < sx_stream.chunks
       THEN /\ sx_stream' = [sx_stream EXCEPT
                               !.pulled = @ + 1,
                               !.pulled_after_drop =
                                   IF sx_conn.connected THEN @ ELSE @ + 1]
            /\ sx_pc' = "send_chunk"
       ELSE /\ sx_pc' = IF sx_stream.raises THEN "send_error" ELSE "send_end"
            /\ UNCHANGED sx_stream
    /\ UNCHANGED <<sx_conn, sx_gone, sx_context>>
    /\ Frame("sx")

\* lines 165-168: the chunk frame
SXSendChunk ==
    /\ sx_pc = "send_chunk"
    /\ sx_conn' = send_message_or_drop(sx_conn, [type |-> "chunk", content |-> "chunk"],
                                       sx_gone)
    /\ sx_pc' = "stream_chat"
    /\ UNCHANGED <<sx_gone, sx_stream, sx_context>>
    /\ Frame("sx")

\* lines 170-172: the end frame
SXSendEnd ==
    /\ sx_pc = "send_end"
    /\ sx_conn' = send_message_or_drop(sx_conn, [type |-> "end"], sx_gone)
    /\ sx_pc' = "update_context"
    /\ UNCHANGED <<sx_gone, sx_stream, sx_context>>
    /\ Frame("sx")

\* lines 175-177: add_message, add_message and save_context are async def
\* and are called without await: three coroutine objects, none of them run
SXUpdateContext ==
    /\ sx_pc = "update_context"
    /\ sx_context' = [sx_context EXCEPT !.never_awaited = @ + 3]
    /\ sx_pc' = "done"
    /\ UNCHANGED <<sx_conn, sx_gone, sx_stream>>
    /\ Frame("sx")

\* lines 179-184: the stream raised; the error frame
SXSendError ==
    /\ sx_pc = "send_error"
    /\ sx_conn' = send_message_or_drop(sx_conn, [type |-> "error", message |-> "str(e)"],
                                       sx_gone)
    /\ sx_pc' = "done"
    /\ UNCHANGED <<sx_gone, sx_stream, sx_context>>
    /\ Frame("sx")

SXNext ==
    \/ SXClientGone
    \/ SXSendStart
    \/ SXNextChunk
    \/ SXSendChunk
    \/ SXSendEnd
    \/ SXUpdateContext
    \/ SXSendError

SXSpecInit == SXInit /\ IdleBut("sx")

SXSpec == SXSpecInit /\ [][SXNext]_vars

\* a send to the client has failed during this exchange
SendFailed == sx_pc # "send_start" /\ ~sx_conn.connected

NothingWritten == sx_context.messages = <<>> /\ ~sx_context.saved

C32_NoChunkPulledAfterDrop == sx_stream.pulled_after_drop = 0

C32_NothingWrittenAfterDrop == SendFailed => NothingWritten

\* what the block does after a failed send: it sends nothing more, and runs
\* to its end like any other exchange
C32_NoFrameAfterDrop ==
    [][SendFailed => sx_conn'.sent = sx_conn.sent]_vars

\* no exchange writes to the context, cancelled or not
C32_NothingWrittenEver == NothingWritten

\* the first send failed and the adapter's two chunks were pulled all the same
C32_DrainedAfterDrop ==
    ~ (/\ sx_pc = "done"
       /\ sx_conn.sent = <<>>
       /\ sx_stream.chunks = MaxChunks
       /\ sx_stream.pulled_after_drop = MaxChunks)

(***************************************************************************)
(* One chat input taken by POST /chat and by a chat frame on /ws/chat      *)
(***************************************************************************)
PXInit ==
    /\ px_case \in PXCases
    /\ px_http = None
    /\ px_ws = None

PXHttp ==
    /\ px_http = None
    /\ px_http' = Some(http_chat(px_case.config, px_case.message, px_case.tool,
                                 px_case.reply))
    /\ UNCHANGED <<px_case, px_ws>>
    /\ Frame("px")

PXWebSocket ==
    /\ px_ws = None
    /\ px_ws' = Some(ws_chat(px_case.config, px_case.message, px_case.tool, px_case.reply))
    /\ UNCHANGED <<px_case, px_http>>
    /\ Frame("px")

PXNext ==
    \/ PXHttp
    \/ PXWebSocket

PXSpecInit == PXInit /\ IdleBut("px")

PXSpec == PXSpecInit /\ [][PXNext]_vars

BothTaken == px_http # None /\ px_ws # None

\* the user message followed by the assistant's actual reply
UserThenReply ==
    <<[role |-> "user", content |-> px_case.message],
      [role |-> "assistant", content |-> px_case.reply]>>

\* C33: for the same message, explicit tool, routing rules and adapter set
\* the WebSocket path and the HTTP path select the same adapter, and where
\* an adapter is selected both leave the same messages in the context: the
\* user message followed by the assistant's actual reply.
C33_SamePathSemantics ==
    BothTaken =>
        /\ px_ws[1].tool = px_http[1].tool
        /\ px_http[1].tool # None =>
              /\ px_http[1].messages = UserThenReply
              /\ px_ws[1].messages = UserThenReply

\* the HTTP half on its own: a 200 leaves the user message and the reply
C33_HttpLeavesExchange ==
    (px_http # None /\ px_http[1].status = 200) => px_http[1].messages = UserThenReply

\* what the WebSocket path does with every chat frame: it ends the handler,
\* selects no adapter and leaves no message
C33_WebSocketLeavesNothing ==
    px_ws # None =>
        /\ ~px_ws[1].running
        /\ px_ws[1].tool = None
        /\ px_ws[1].messages = <<>>

\* the two selection rules side by side, whatever line 129 does
Decision == route(get_router(px_case.config), px_case.message, px_case.tool)

C33_SameSelection ==
    LET adapters == get_adapters(px_case.config)
        http == select_tool(px_case.tool, Decision, adapters)
    IN (http # None /\ http[1] \in adapters)
       => ws_select_tool(Decision, adapters) = http

\* they agree when the tool is given explicitly or the decision's first
\* tool has an adapter
C33_SameSelectionWhenFirstPresent ==
    LET adapters == get_adapters(px_case.config)
    IN (Truthy(px_case.tool) \/ Decision[1] \in adapters)
       => /\ ws_select_tool(Decision, adapters) # None
             => ws_select_tool(Decision, adapters)
                   = select_tool(px_case.tool, Decision, adapters)
          /\ ws_select_tool(Decision, adapters) = None
             => select_tool(px_case.tool, Decision, adapters)[1] \notin adapters

\* lines 175-177 with their awaits would still not leave the actual reply
C33_AwaitedLeavesReply ==
    ws_update_context_awaited(<<>>, px_case.message) = UserThenReply

\* both paths have taken "Fix bug" with gpt and claude configured: POST /chat
\* answered 200 through gpt
C33_HttpAnsweredThroughGpt ==
    ~ (/\ BothTaken
       /\ px_case.message = <<"Fix", "bug">>
       /\ px_case.tool = None
       /\ px_http[1].status = 200
       /\ px_http[1].tool = Some("gpt"))

(***************************************************************************)
(* The server: requests through the middleware stack, under a clock        *)
(***************************************************************************)
MWInit ==
    /\ mw_app \in Apps
    /\ mw_limiters = NoTable
    /\ mw_now = 0
    /\ mw_out = NoExchange

MWTime ==
    /\ mw_now < MWMaxTime
    /\ mw_now' = mw_now + MWTick
    /\ UNCHANGED <<mw_app, mw_limiters, mw_out>>
    /\ Frame("mw")

\* one request, from the outermost middleware to the response on the wire
MWRequest ==
    /\ \E request \in HttpRequests :
        LET r == app_call(mw_app, mw_limiters, request, mw_now)
        IN /\ mw_limiters' = r[2]
           /\ mw_out' = [request |-> request, status |-> r[1].status,
                         headers |-> r[1].headers, by |-> r[1].by]
    /\ UNCHANGED <<mw_app, mw_now>>
    /\ Frame("mw")

MWNext ==
    \/ MWTime
    \/ MWRequest

MWSpecInit == MWInit /\ IdleBut("mw")

MWSpec == MWSpecInit /\ [][MWNext]_vars

(***************************************************************************)
(* C34: the security headers                                               *)
(***************************************************************************)
Answered == mw_out.status # 0

\* C34: every HTTP response the server produces carries the security
\* headers, the responses of a middleware that short-circuits the chain
\* (401 of the API-key gate, 429 of the rate limiter, 403 of the CSRF
\* protection, 413 of the body-size cap) included.
C34_SecurityHeadersOnEveryResponse ==
    Answered => security_headers \subseteq mw_out.headers

\* C34, the part that holds: what is answered from inside
\* SecurityHeadersMiddleware without an exception carries the headers: the
\* 401 of the gate, the 429 of the limiter, the 413 of the size cap and
\* what a route returns.
C34_HeadersOnWhatIsInside ==
    /\ mw_out.by \in {"APIKeyMiddleware", "RateLimitMiddleware", "limit_request_size"}
        => security_headers \subseteq mw_out.headers
    /\ mw_out.by = "route" /\ mw_out.status # 500
        => security_headers \subseteq mw_out.headers

\* C34, where it fails: the CSRF rejection is raised outside
\* SecurityHeadersMiddleware, and an exception of a route passes through it;
\* neither response has any of the headers.
C34_BareOutsideOrRaised ==
    mw_out.by = "CSRFProtectionMiddleware" \/ (mw_out.by = "route" /\ mw_out.status = 500)
        => mw_out.headers \cap security_headers = {}

\* a POST without CSRF token is refused with 403 and no security header
C34_CsrfRejectionWithoutHeaders ==
    /\ mw_out.status = 403
    /\ mw_out.by = "CSRFProtectionMiddleware"
    /\ mw_out.request.method = "POST"
    /\ mw_out.request.csrf = "none"
    /\ mw_out.headers = {}

\* a 429 of the limiter that carries the headers
C34_LimitedWithHeaders ==
    /\ mw_out.status = 429
    /\ security_headers \subseteq mw_out.headers

(***************************************************************************)
(* C37: the API-key gate and the rate limiter                              *)
(***************************************************************************)
\* this step is a request that the API-key gate answered with 401
GateRejects ==
    /\ mw_now' = mw_now
    /\ mw_out'.by = "APIKeyMiddleware"
    /\ mw_out'.status = 401

\* the tokens bucket c holds at the time of the request, before it is served
tokens_before(c) == refill(limiter_of(mw_limiters, mw_app, c, mw_now), mw_now).tokens

NoTokenTaken ==
    \A c \in DOMAIN mw_limiters' : mw_limiters'[c].tokens >= tokens_before(c)

\* the last request came with a key that is not the configured one and was
\* refused by the gate; this one comes with the configured key
ValidAfterRejected ==
    /\ mw_out.by = "APIKeyMiddleware"
    /\ mw_out.request.x_api_key = Some(SamePrefixKey)
    /\ mw_now' = mw_now
    /\ mw_out'.request.x_api_key = Some(ConfiguredKey)
    /\ ~(mw_out'.by = "CSRFProtectionMiddleware")

\* C37: the API-key gate runs before the rate limiter: a request rejected
\* with 401 by the gate consumes no token from any rate-limit bucket, so
\* requests with invalid credentials cannot exhaust the bucket of another
\* client.
C37_RejectedTakesNoToken ==
    /\ [][GateRejects => NoTokenTaken]_vars
    /\ [][ValidAfterRejected => mw_out'.status # 429]_vars

\* C37, what the code does: the limiter runs first, every request the gate
\* refuses has paid one token from the bucket of its client id.
C37_RejectedPaidOneToken ==
    [][GateRejects =>
        LET c == client_id(mw_out'.request)
        IN mw_limiters'[c].tokens = tokens_before(c) - Unit(mw_limiters'[c])]_vars

\* C37, the second half on its own: a client with the configured key is not
\* limited right after the gate refused somebody else's key.
C37_ValidNotLimitedAfterRejected ==
    [][ValidAfterRejected => mw_out'.status # 429]_vars

\* the order the claim describes would hold for a limiter that sees only
\* admitted requests: a request refused by the limiter never reached the gate
C37_LimitedBeforeGate ==
    [][mw_now' = mw_now /\ mw_out'.status = 429 /\ mw_out' # mw_out
        => mw_out'.by = "RateLimitMiddleware"]_vars

\* a request with a key that is not the configured one was refused with 401
\* and the bucket of the shared prefix is empty
C37_RejectedAndBucketEmpty ==
    /\ mw_out.by = "APIKeyMiddleware"
    /\ mw_out.request.x_api_key = Some(SamePrefixKey)
    /\ "api_key:mobileke" \in DOMAIN mw_limiters
    /\ mw_limiters["api_key:mobileke"].tokens = 0

(***************************************************************************)
(* C38: a client with an access token and no API key                       *)
(***************************************************************************)
\* the last request was POST /api/v1/chat with a valid access token and no
\* API key, and neither the CSRF protection nor the limiter stood in its way
JwtOnlyChat ==
    /\ Answered
    /\ mw_out.request.path = "/api/v1/chat"
    /\ mw_out.request.bearer = Some(AccessToken)
    /\ mw_out.request.x_api_key = None
    /\ mw_out.request.content_length = None
    /\ mw_out.by \notin {"CSRFProtectionMiddleware", "RateLimitMiddleware"}

Admitted == mw_out.by = "route" /\ mw_out.status = 200

\* C38: a client presenting only a valid JWT access token in the
\* Authorization bearer header is admitted to protected routes such as
\* POST /api/v1/chat, whether or not a server-side API key is configured.
C38_JwtOnlyAdmitted == JwtOnlyChat => Admitted

\* C38, the half that holds: without a configured key the gate lets the
\* request through and require_auth accepts the token.
C38_JwtOnlyAdmittedWithoutServerKey ==
    JwtOnlyChat /\ mw_app.api_key = None => Admitted

\* C38, with a configured key: the gate takes the token for the API key,
\* it differs from the configured one, and the answer is 401.
C38_JwtOnlyRefusedWithServerKey ==
    JwtOnlyChat /\ mw_app.api_key # None
        => mw_out.by = "APIKeyMiddleware" /\ mw_out.status = 401

\* a client with the configured key and an access token is admitted
C38_KeyAndJwtAdmitted ==
    /\ Answered
    /\ mw_app.api_key # None
    /\ mw_out.request.path = "/api/v1/chat"
    /\ mw_out.request.bearer = Some(AccessToken)
    /\ mw_out.request.x_api_key = Some(ConfiguredKey)
    /\ Admitted

\* the access token alone was refused by the gate
C38_JwtOnlyGot401 ==
    /\ JwtOnlyChat
    /\ mw_out.status = 401

(***************************************************************************)
(* C36: the delay before a retry                                           *)
(***************************************************************************)
\* min(initial_delay * exponential_base^n, max_delay)
backoff(p, n) == Min(p.initial_delay * Pow(p.exponential_base, n), p.max_delay)

\* C36: with jitter off, the delay slept before the k-th retry, counting
\* the first retry as k = 0, equals
\* min(initial_delay * exponential_base^k, max_delay); in particular the
\* first retry waits initial_delay.
C36_DelayBeforeKthRetry ==
    ~policy.jitter =>
        \A i \in 1..Len(rt_slept) : rt_slept[i] = backoff(policy, i - 1)

\* C36, what the wrapper does: attempt is incremented before delay(attempt)
\* is computed, so the k-th retry waits the backoff of k + 1.
C36_DelayIsOneStepAhead ==
    ~policy.jitter =>
        \A i \in 1..Len(rt_slept) : rt_slept[i] = backoff(policy, i)

\* C36: the first retry waits initial_delay.
C36_FirstRetryWaitsInitialDelay ==
    ~policy.jitter /\ Len(rt_slept) >= 1 => rt_slept[1] = policy.initial_delay

\* with jitter on the delay is between 0.75 and 1.0 of the same backoff
C36_JitterRange ==
    policy.jitter =>
        \A i \in 1..Len(rt_slept) :
            /\ 4 * rt_slept[i] >= 3 * backoff(policy, i) - 4
            /\ rt_slept[i] <= backoff(policy, i)

\* the first retry of a policy with initial_delay 1 s and base 2 waited 2 s
C36_FirstRetryWaitedTwice ==
    /\ ~policy.jitter
    /\ policy.initial_delay = 1000
    /\ policy.exponential_base = 2
    /\ rt_slept = <<2000>>

(***************************************************************************)
(* RateLimiter: try_acquire(n), acquire(n), remaining() and wait_time()    *)
(* on one bucket, under a clock that does not go back                      *)
(***************************************************************************)
MaxOps == 3            \* calls started on the bucket in one behaviour

BKInit ==
    /\ tb_now = 1
    /\ \E cap \in 1..MaxCapacity, num \in 1..MaxRateNum, den \in 1..MaxRateDen :
          bucket = TokenBucket(cap, num, den, 1)
    /\ tb_calls = <<>>
    /\ tb_acquire = NoAcquire
    /\ tb_last = NoBucketCall
    /\ tb_ops = 0

\* what a call saw after its refill and what it left behind
Call(op, tokens, ok, after) ==
    [op |-> op, tokens |-> tokens, ok |-> ok,
     refilled |-> refill(bucket, tb_now).tokens, left |-> after.tokens]

\* time passes; once the bucket would be full again, more time changes
\* nothing it can see
BKTick ==
    /\ (tb_now - bucket.last_refill) * bucket.refill_rate[1] < bucket.capacity * Unit(bucket)
    /\ tb_now' = tb_now + 1
    /\ UNCHANGED <<bucket, tb_calls, tb_acquire, tb_last, tb_ops>>
    /\ Frame("tb")

\* RateLimiter.try_acquire(tokens)
BKTryAcquire ==
    /\ tb_ops < MaxOps
    /\ \E tokens \in 1..(bucket.capacity + 1) :
        LET r == try_acquire(bucket, tb_now, tokens) IN
        /\ bucket' = r[1]
        /\ tb_last' = Call("try_acquire", tokens, r[2], r[1])
    /\ tb_ops' = tb_ops + 1
    /\ UNCHANGED <<tb_now, tb_calls, tb_acquire>>
    /\ Frame("tb")

\* RateLimiter.remaining()
BKRemaining ==
    /\ tb_ops < MaxOps
    /\ LET r == remaining(bucket, tb_now) IN
        /\ bucket' = r[1]
        /\ tb_last' = Call("remaining", 0, TRUE, r[1])
    /\ tb_ops' = tb_ops + 1
    /\ UNCHANGED <<tb_now, tb_calls, tb_acquire>>
    /\ Frame("tb")

\* TokenBucket.wait_time()
BKWaitTime ==
    /\ tb_ops < MaxOps
    /\ LET r == wait_time(bucket, tb_now) IN
        /\ bucket' = r[1]
        /\ tb_last' = Call("wait_time", 0, TRUE, r[1])
    /\ tb_ops' = tb_ops + 1
    /\ UNCHANGED <<tb_now, tb_calls, tb_acquire>>
    /\ Frame("tb")

\* await limiter.acquire(tokens) is called
BKAcquireStart ==
    /\ tb_ops < MaxOps
    /\ tb_acquire.pc = "idle"
    /\ \E tokens \in 1..bucket.capacity :
        tb_acquire' = [NoAcquire EXCEPT !.pc = "try", !.tokens = tokens, !.resumed = "call"]
    /\ tb_ops' = tb_ops + 1
    /\ UNCHANGED <<bucket, tb_now, tb_calls, tb_last>>
    /\ Frame("tb")

\* one pass of acquire's while loop: try_acquire(tokens); on failure
\* wait_time() and, if it is positive, the start of asyncio.sleep; if it is
\* not, the loop goes round without giving up control
BKAcquireTry ==
    /\ tb_acquire.pc = "try"
    /\ LET r == try_acquire(bucket, tb_now, tb_acquire.tokens)
           w == wait_time(r[1], tb_now)
       IN IF r[2]
          THEN /\ bucket' = r[1]
               /\ tb_last' = Call("acquire", tb_acquire.tokens, TRUE, r[1])
               /\ tb_acquire' = NoAcquire
          ELSE /\ bucket' = w[1]
               /\ tb_last' = Call("acquire", tb_acquire.tokens, FALSE, w[1])
               /\ tb_acquire' =
                    IF w[2] > 0
                    THEN [tb_acquire EXCEPT !.pc = "sleep", !.since = tb_now,
                                            !.wait_time = w[2]]
                    ELSE [tb_acquire EXCEPT !.resumed = "loop", !.wait_time = 0]
    /\ UNCHANGED <<tb_now, tb_calls, tb_ops>>
    /\ Frame("tb")

\* asyncio.sleep(wait_time) is over
BKAcquireWake ==
    /\ tb_acquire.pc = "sleep"
    /\ (tb_now - tb_acquire.since) * bucket.refill_rate[1] >= tb_acquire.wait_time
    /\ tb_acquire' = [tb_acquire EXCEPT !.pc = "try", !.resumed = "sleep"]
    /\ UNCHANGED <<bucket, tb_now, tb_calls, tb_last, tb_ops>>
    /\ Frame("tb")

BKNext ==
    \/ BKTick
    \/ BKTryAcquire
    \/ BKRemaining
    \/ BKWaitTime
    \/ BKAcquireStart
    \/ BKAcquireTry
    \/ BKAcquireWake

BKSpecInit == BKInit /\ IdleBut("tb")

BKSpec == BKSpecInit /\ [][BKNext]_vars

\* acquire calls alone, one after the other, while time advances
AcquireNext ==
    \/ BKTick
    \/ BKAcquireStart
    \/ BKAcquireTry
    \/ BKAcquireWake

AcquireSpec ==
    /\ BKSpecInit
    /\ [][AcquireNext]_vars
    /\ WF_vars(BKTick)
    /\ WF_vars(BKAcquireTry)
    /\ WF_vars(BKAcquireWake)

(***************************************************************************)
(* C35: RateLimiter.acquire                                                *)
(***************************************************************************)
\* this step is one pass of acquire's loop
Attempt ==
    /\ tb_acquire.pc = "try"
    /\ tb_last'.op = "acquire"
    /\ tb_last' # tb_last \/ tb_acquire' # tb_acquire

FailedAttempt == Attempt /\ ~tb_last'.ok

AcquireReturns == tb_acquire.pc # "idle" ~> tb_acquire.pc = "idle"

DeductsExactly ==
    Attempt /\ tb_last'.ok
        => /\ tb_acquire'.pc = "idle"
           /\ bucket'.tokens = refill(bucket, tb_now).tokens - tb_acquire.tokens * Unit(bucket)

\* a sleep of (n - tokens) / rate: wait_time holds the numerator over num
SleepsForMissing ==
    FailedAttempt
        => /\ tb_acquire'.pc = "sleep"
           /\ tb_acquire'.wait_time = tb_acquire.tokens * Unit(bucket) - tb_last'.refilled

\* C35: RateLimiter.acquire(n) with 1 <= n <= capacity and refill rate > 0
\* eventually returns as time advances, having deducted exactly n tokens;
\* after each failed attempt it suspends with an async sleep of
\* (n - tokens)/rate before the next attempt, never re-attempting without
\* suspending.
C35_AcquireSleepsThenReturns ==
    /\ AcquireReturns
    /\ [][DeductsExactly /\ SleepsForMissing]_vars
    /\ [](tb_acquire.resumed # "loop")

\* C35, the parts that hold: as time advances acquire returns,
C35_AcquireReturns == AcquireReturns

\* and it returns having deducted exactly n tokens,
C35_DeductsExactly == [][DeductsExactly]_vars

\* and for n = 1 a failed attempt sleeps (1 - tokens)/rate.
C35_OneTokenSleepsForMissing ==
    [][tb_acquire.tokens = 1 => SleepsForMissing]_vars

\* C35, what the loop does for any n: wait_time() is about one token; with
\* less than one token the sleep is (1 - tokens)/rate, with one token or
\* more there is no sleep and the loop goes round at once.
C35_SleepIsForOneToken ==
    [][FailedAttempt =>
        IF tb_last'.refilled < Unit(bucket)
        THEN /\ tb_acquire'.pc = "sleep"
             /\ tb_acquire'.wait_time = Unit(bucket) - tb_last'.refilled
        ELSE /\ tb_acquire'.pc = "try"
             /\ tb_acquire'.resumed = "loop"]_vars

\* C35 without its last part: every failed attempt ends in a sleep
C35_FailedAttemptSleeps == [][FailedAttempt => tb_acquire'.pc = "sleep"]_vars

\* acquire(2) found one token, did not sleep and is going round its loop
C35_LoopedWithoutSleep ==
    /\ tb_acquire.pc = "try"
    /\ tb_acquire.tokens = 2
    /\ tb_acquire.resumed = "loop"
    /\ tb_last.op = "acquire" /\ ~tb_last.ok
    /\ tb_last.refilled >= Unit(bucket)

(***************************************************************************)
(* C39: the bucket's invariant                                             *)
(***************************************************************************)
\* C39: for any sequence of try_acquire(n) with n >= 1, acquire, remaining
\* and wait_time calls interleaved with advances of a non-decreasing
\* clock, 0 <= tokens <= capacity holds in every reachable state, and a
\* try_acquire that returns false leaves the token count unchanged apart
\* from the refill.
C39_TokensWithinCapacity ==
    /\ 0 <= bucket.tokens
    /\ bucket.tokens <= bucket.capacity * Unit(bucket)
    /\ tb_last.op \in {"try_acquire", "acquire"} /\ ~tb_last.ok
        => tb_last.left = tb_last.refilled

\* a try_acquire(2) on a bucket of capacity 2 that time had refilled to
\* more than one token but less than two returned false
C39_FailedAfterRefill ==
    /\ tb_last.op = "try_acquire"
    /\ tb_last.tokens = 2
    /\ ~tb_last.ok
    /\ bucket.capacity = 2
    /\ tb_last.refilled > Unit(bucket)
    /\ bucket.tokens = tb_last.refilled
    /\ bucket.last_refill > 1

(***************************************************************************)
(* C40: outcomes of calls admitted before the breaker opened               *)
(***************************************************************************)
\* this step records the failure / the success of an operation that was
\* invoked before the breaker last opened
LateFailure == cb_event' = "failure" /\ cb_late' /\ cb_inflight' < cb_inflight
LateSuccess == cb_event' = "success" /\ cb_late' /\ cb_inflight' < cb_inflight

\* the time from which OPEN may become HALF_OPEN: _check_state compares
\* now - _last_failure_time with timeout
half_open_from(b) == b.last_failure_time[1] + b.timeout

\* C40: under concurrent calls the outcome of a call that was admitted
\* before the breaker opened does not affect the open period or the
\* recovery: a late failure does not postpone the time at which OPEN may
\* become HALF_OPEN, and a late success is not counted towards
\* success_threshold while HALF_OPEN.
C40_LateOutcomesIgnored ==
    /\ [][LateFailure /\ breaker.state = OPEN
            => /\ breaker'.state = OPEN
               /\ half_open_from(breaker') = half_open_from(breaker)]_vars
    /\ [][LateFailure /\ breaker.state = HALF_OPEN => breaker'.state = HALF_OPEN]_vars
    /\ [][LateSuccess /\ breaker.state = HALF_OPEN
            => /\ breaker'.state = HALF_OPEN
               /\ breaker'.successes = breaker.successes]_vars

\* C40, the first half on its own: a late failure while OPEN leaves the
\* time at which OPEN may become HALF_OPEN where it was.
C40_LateFailureDoesNotPostpone ==
    [][LateFailure /\ breaker.state = OPEN
            => half_open_from(breaker') = half_open_from(breaker)]_vars

\* C40, the second half on its own: a late success while HALF_OPEN is not
\* counted.
C40_LateSuccessNotCounted ==
    [][LateSuccess /\ breaker.state = HALF_OPEN
            => /\ breaker'.state = HALF_OPEN
               /\ breaker'.successes = breaker.successes]_vars

\* C40, what the code does: _on_failure and _on_success do not know which
\* call they are recording. A late failure while OPEN moves the time to
\* its own time plus timeout, a late failure while HALF_OPEN reopens the
\* breaker, and a late success while HALF_OPEN counts as a probe's success.
C40_LateOutcomesCountLikeAnyOther ==
    [][ /\ LateFailure /\ breaker.state = OPEN
            => half_open_from(breaker') = cb_now + breaker.timeout
        /\ LateFailure /\ breaker.state = HALF_OPEN => breaker'.state = OPEN
        /\ LateSuccess /\ breaker.state = HALF_OPEN
            => \/ breaker'.successes = breaker.successes + 1
               \/ breaker'.state = CLOSED ]_vars

\* what is left of the claim: while OPEN a late success changes neither the
\* state nor the time at which OPEN may become HALF_OPEN
C40_LateSuccessWhileOpenIgnored ==
    [][LateSuccess /\ breaker.state = OPEN
            => /\ breaker'.state = OPEN
               /\ breaker'.last_failure_time = breaker.last_failure_time]_vars

\* the breaker has closed on the success of an operation that was invoked
\* before it opened, with no probe having succeeded
C40_ClosedByLateSuccess ==
    /\ breaker.state = CLOSED
    /\ cb_event = "success"
    /\ cb_late
    /\ cb_openedAt # None
    /\ cb_probeSuccesses = 1
    /\ breaker.success_threshold = 1

====
